---- MODULE Spec2Model ----
(***************************************************************************)
(* Tangible-Tensor: the lesson views of the interactive laboratory, as     *)
(* state machines.  One lesson view is mounted at a time (variable view);  *)
(* its React state hooks are the variables, its event handlers, effects    *)
(* and timers are the actions.                                             *)
(*                                                                         *)
(* Numbers.  The program computes in IEEE doubles; the model computes in   *)
(* fixed point, rounding to nearest after every multiplication:            *)
(*   world coordinates      1/1000  (Unit)                                 *)
(*   values of f            1/1000000  (Unit * Unit)                       *)
(*   learning rate          1/100   (the slider's step)                    *)
(*   camera angles          1/100 rad (one pixel of orbit drag)            *)
(*   screen lengths         pixels                                         *)
(* A pointer event enters as what the handler derives from it: the pixel   *)
(* distance between the pointer and a projected handle on pointer-down,    *)
(* the delta (dx, dy) to lastMouse on pointer-move.                        *)
(***************************************************************************)
EXTENDS Integers, Sequences, FiniteSets, TLC

\* ---------------------------------------------------------------- bounds
\* user inputs (pointer and panel events) handled since the view was mounted
MaxInputs == 4
\* accepted gradient steps between two resets of the iteration counter
MaxIter == 14
\* largest coordinate from which the stepper still steps: the square of a
\* coordinate has to fit the 32-bit integers of the model checker
MaxCoord == 46000
\* inputs among which the number fields are edited
MaxEdits == 2
\* inputs the views with a render queue handle
MaxPointer == 2

\* pointer deltas (pixels) a move can carry
Deltas == { <<0, 0>>, <<40, 0>>, <<0, -40>>, <<-60, 30>> }
\* pixel distances between a pointer-down and a projected handle
HitDists == { 0, 14, 15, 20, 40 }
\* learning rates the slider is set to (hundredths)
LearningRates == { 10, 50 }

\* ------------------------------------------------------------ arithmetic
Unit == 10 ^ 3

Abs(n) == IF n < 0 THEN -n ELSE n

\* n / d rounded to the nearest integer, halves away from zero (d > 0)
Rnd(n, d) == IF n >= 0 THEN (n + d \div 2) \div d
                       ELSE -(((-n) + d \div 2) \div d)

Max(a, b) == IF a > b THEN a ELSE b
Min(a, b) == IF a < b THEN a ELSE b

\* Math.sin on thousandths of a radian, result in thousandths
Sin(m) ==
    LET r0 == m % 6283
        r1 == IF r0 > 3142 THEN r0 - 6283 ELSE r0
        x  == IF r1 > 1571 THEN 3142 - r1
              ELSE IF r1 < -1571 THEN -3142 - r1 ELSE r1
        x2 == Rnd(x * x, Unit)
        t3 == Unit - Rnd(x2, 42)
        t2 == Unit - Rnd(x2 * t3, 20 * Unit)
        t1 == Unit - Rnd(x2 * t2, 6 * Unit)
    IN  Rnd(x * t1, Unit)

\* Math.cos on thousandths of a radian, result in thousandths
Cos(m) == Sin(m + 1571)

\* handleWheel: the zoom scale after one wheel event, clamped into [lo, hi]
\* (up: deltaY < 0, factor 1.1; otherwise factor 0.9)
zoomScale(prev, up, lo, hi) ==
    Max(lo, Min(hi, Rnd(prev * (IF up THEN 11 ELSE 9), 10)))

\* where the pointer is over the canvas, in pixels from its centre
CursorOffsets == { <<0, 0>>, <<100, -50>> }

\* the positions in the sorted render list at which a paint can throw
ThrowAt == { 1, 2, 30 }

\* ------------------------------------------------------------- the views
NoDrag == "null"

VARIABLES
    view,           \* the lesson view that is mounted
    event,          \* the last event the view handled
    nInputs,        \* user inputs handled so far
    hit,            \* the handle the last pointer-down hit, or "none"
    overlap,        \* the last pointer-down was within reach of two handles
    pre,            \* what held when the last event arrived
    \* view and interaction state (every lesson view)
    camera, cameraAngle, is3D, scale, pan, dragging,
    \* GradientDescent (position is also the probe of CurlLevel)
    funcIndex, learningRate, isRunning, position, path, iteration,
    \* MatrixMultiplicationLevel
    queue, isAnimating, currentMatrix, stepIndex, progress, accumulatedMatrix,
    animated,       \* the steps whose animation has completed in this run
    \* LineEquationLevel
    pointP, dirV,
    \* VectorVisualizer (isOrbiting also in VectorPlayground)
    vector, isDraggingVector, isOrbiting,
    \* VectorPlayground, CrossProductLevel, DotProductLevel
    vecA, vecB, cameraY,
    buttons,        \* VectorPlayground: the primary button is held (e.buttons)
    \* EigenvectorsLevel
    currentPreset, t, isPlaying, probeBase,
    \* MatrixTransformLevel
    targetMatrix3D, currentMatrix3D, animating,
    targetMatrix2D, currentMatrix2D,
    \* the render queue of a depth-sorted frame
    renderList, painted, drawPc,
    \* IntegralVisualizer (its funcIndex is the hook of that name above)
    resolution, totalVolume,
    \* MatrixTransform
    matrix,
    \* the requestAnimationFrame chains the draw-loop effect has started and
    \* nothing has cancelled (counted up to MaxLoops)
    drawLoops

gdVars == << funcIndex, learningRate, isRunning, position, path, iteration >>
camVars == << camera, scale, pan >>
mmVars == << queue, isAnimating, currentMatrix, stepIndex, progress,
             accumulatedMatrix, animated >>
lineVars == << pointP, dirV >>
vvVars == << vector, isDraggingVector, isOrbiting >>
abVars == << vecA, vecB, cameraY, buttons >>
eigVars == << currentPreset, t, isPlaying, probeBase >>
mtVars == << targetMatrix3D, currentMatrix3D, animating, targetMatrix2D,
            currentMatrix2D >>
drawVars == << renderList, painted, drawPc >>
ivVars == << resolution, totalVolume >>
\* the hooks of the views other than GradientDescent, MatrixMultiplication-
\* Level, LineEquationLevel, CurlLevel and VectorVisualizer
otherVars == << abVars, eigVars, mtVars, drawVars, ivVars, matrix >>
vars == << view, event, nInputs, hit, overlap, pre, camVars, cameraAngle, is3D, dragging,
           gdVars, mmVars, lineVars, vvVars, otherVars, drawLoops >>

\* draw loops the model tells apart
MaxLoops == 3

\* the views whose effect is
\*   const loop = () => { draw(); requestAnimationFrame(loop); }; loop();
\* with the dependency [draw] and no cleanup
LoopViews == { "CrossProductLevel", "MatrixMultiplicationLevel" }

\* the effect runs again with each of the n new identities of draw that the
\* renders of one event produce, and every run starts one more chain
startLoops(n) == drawLoops' = Min(MaxLoops, drawLoops + n)

\* the other views have no such effect
keepLoops == IF view \in LoopViews THEN TRUE ELSE UNCHANGED drawLoops

\* what the GradientDescent view does not hold
notGD == << cameraAngle, is3D, mmVars, lineVars, vvVars, otherVars >>

Origin == [ x |-> 0, y |-> 0 ]
Zero3 == [ x |-> 0, y |-> 0, z |-> 0 ]

\* the hooks of the views that are not mounted
NoGradientDescent ==
    /\ funcIndex = 0 /\ learningRate = 10 /\ isRunning = FALSE
    /\ path = << >> /\ iteration = 0
NoMatrixMultiplication ==
    /\ queue = << >> /\ isAnimating = FALSE /\ currentMatrix = Origin
    /\ stepIndex = 0 /\ progress = 0 /\ accumulatedMatrix = Origin
    /\ animated = << >>
NoLineEquation == pointP = Zero3 /\ dirV = Zero3
NoVectorVisualizer ==
    vector = Zero3 /\ isDraggingVector = FALSE /\ isOrbiting = FALSE
NoVectors == vecA = Zero3 /\ vecB = Zero3 /\ cameraY = 0 /\ buttons = 0
NoEigenvectors ==
    currentPreset = "none" /\ t = 0 /\ isPlaying = FALSE /\ probeBase = Origin
NoMatrixTransformLevel ==
    /\ targetMatrix3D = Zero3 /\ currentMatrix3D = Zero3 /\ animating = FALSE
    /\ targetMatrix2D = Origin /\ currentMatrix2D = Origin
NoRenderQueue == renderList = << >> /\ painted = << >> /\ drawPc = "idle"
NoMatrixTransform == matrix = Origin
NoIntegral == resolution = 0 /\ totalVolume = 0
\* the five views above hold none of the hooks of the other views
NoOtherViews ==
    /\ NoVectors /\ NoEigenvectors /\ NoMatrixTransformLevel
    /\ NoRenderQueue /\ NoMatrixTransform /\ NoIntegral

\* a user input: the model handles MaxInputs of them
Input == nInputs < MaxInputs /\ nInputs' = nInputs + 1

\* the drag target of the interaction state machine
Target ==
    CASE view = "VectorVisualizer" ->
            IF isDraggingVector THEN "VECTOR"
            ELSE IF isOrbiting THEN "ORBIT" ELSE NoDrag
      [] view = "MatrixMultiplicationLevel" ->
            IF dragging THEN "PAN" ELSE NoDrag
      [] view = "VectorPlayground" ->
            IF dragging # NoDrag THEN dragging
            ELSE IF isOrbiting /\ is3D THEN "ORBIT"
            ELSE IF buttons = 1 /\ ~is3D THEN "PAN" ELSE NoDrag
      [] view = "CrossProductLevel" ->
            IF dragging = "CAMERA" THEN "ORBIT" ELSE dragging
      [] view = "DotProductLevel" ->
            IF dragging = "PAN" /\ is3D THEN "ORBIT" ELSE dragging
      [] OTHER -> dragging

Snapshot ==
    [ running |-> isRunning, trail |-> path # << >>, target |-> Target,
      event |-> event ]

\* the history variables after an event e other than a pointer-down ...
Handled(e) ==
    event' = e /\ pre' = Snapshot /\ UNCHANGED << hit, overlap >> /\ keepLoops
\* ... and after a pointer-down that hit handle h
HandledDown(h) ==
    /\ event' = "mouseDown" /\ pre' = Snapshot /\ hit' = h /\ overlap' = FALSE
    /\ keepLoops
\* ... and after a pointer-down that hit handle h in a view of two handles,
\* both of them within reach when both holds
HandledDownOfTwo(h, both) ==
    /\ event' = "mouseDown" /\ pre' = Snapshot /\ hit' = h /\ overlap' = both
    /\ keepLoops

NoHistory ==
    /\ event = "mount" /\ nInputs = 0 /\ hit = "none" /\ overlap = FALSE
    /\ drawLoops = IF view \in LoopViews THEN 1 ELSE 0
    /\ pre = [ running |-> FALSE, trail |-> FALSE, target |-> NoDrag,
                event |-> "mount" ]

\* ======================================================= GradientDescent
FUNCTIONS ==
    [ i \in 0..2 |->
        CASE i = 0 -> [ id |-> "bowl",   start |-> [x |-> 3 * Unit, y |-> 3 * Unit] ]
          [] i = 1 -> [ id |-> "waves",  start |-> [x |-> 2500, y |-> 2500] ]
          [] i = 2 -> [ id |-> "saddle", start |-> [x |-> 100, y |-> 3 * Unit] ] ]

f(i, x, y) ==
    CASE i = 0 -> Rnd(x * x + y * y, 4)
      [] i = 1 -> Unit * Cos(x) + Unit * Cos(y) + Rnd(x * x + y * y, 10)
      [] i = 2 -> Rnd(x * x - y * y, 4)

df_dx(i, x, y) ==
    CASE i = 0 -> Rnd(x, 2)
      [] i = 1 -> -Sin(x) + Rnd(x, 5)
      [] i = 2 -> Rnd(x, 2)

df_dy(i, x, y) ==
    CASE i = 0 -> Rnd(y, 2)
      [] i = 1 -> -Sin(y) + Rnd(y, 5)
      [] i = 2 -> -Rnd(y, 2)

\* a stepper that climbs: the gradient is added
stepNext_Ascent(i, lr, prev) ==
    [ x |-> prev.x + Rnd(lr * df_dx(i, prev.x, prev.y), 100),
      y |-> prev.y + Rnd(lr * df_dy(i, prev.x, prev.y), 100) ]

\* x_new = x_old - learning_rate * gradient
stepNext(i, lr, prev) ==
    [ x |-> prev.x - Rnd(lr * df_dx(i, prev.x, prev.y), 100),
      y |-> prev.y - Rnd(lr * df_dy(i, prev.x, prev.y), 100) ]

\* the square of dist, in Unit * Unit
stepDist2(prev, next) ==
    (next.x - prev.x) * (next.x - prev.x) + (next.y - prev.y) * (next.y - prev.y)

\* a stop condition without the divergence test
stepStops_NoDivergence(d2) ==
    d2 < (Unit \div 1000) * (Unit \div 1000)

\* a stop condition without the convergence test
stepStops_NoConvergence(d2) ==
    d2 > (10 * Unit) * (10 * Unit)

\* dist < 0.001 || dist > 10
stepStops(d2) ==
    \/ d2 < (Unit \div 1000) * (Unit \div 1000)
    \/ d2 > (10 * Unit) * (10 * Unit)

\* a step that counts the iteration without storing the point it leaves
step_NoTrail ==
    LET prev == position
        next == stepNext(funcIndex, learningRate, prev)
    IN  IF stepStops(stepDist2(prev, next))
        THEN /\ isRunning' = FALSE
             /\ UNCHANGED << position, path, iteration >>
        ELSE /\ position' = next
             /\ iteration' = iteration + 1
             /\ UNCHANGED << path, isRunning >>

\* the state updates of one call of step()
step ==
    LET prev == position
        next == stepNext(funcIndex, learningRate, prev)
    IN  IF stepStops(stepDist2(prev, next))
        THEN /\ isRunning' = FALSE
             /\ UNCHANGED << position, path, iteration >>
        ELSE /\ position' = next
             /\ path' = Append(path, [ x |-> prev.x,
                                       y |-> f(funcIndex, prev.x, prev.y),
                                       z |-> prev.y ])
             /\ iteration' = iteration + 1
             /\ UNCHANGED isRunning

\* the interval exists exactly while isRunning
GDTick ==
    /\ view = "GradientDescent"
    /\ isRunning
    /\ iteration < MaxIter
    /\ Abs(position.x) <= MaxCoord /\ Abs(position.y) <= MaxCoord
    /\ step
    /\ Handled("tick")
    /\ UNCHANGED notGD
    /\ UNCHANGED << view, nInputs, funcIndex, learningRate, camVars, dragging >>

\* a reset that forgets to clear the trail
reset_KeepsTrail(af) ==
    /\ isRunning' = FALSE
    /\ position' = FUNCTIONS[af].start
    /\ UNCHANGED << path, iteration >>

\* reset() with the active function af
reset(af) ==
    /\ isRunning' = FALSE
    /\ position' = FUNCTIONS[af].start
    /\ path' = << >>
    /\ iteration' = 0

GDReset ==
    /\ view = "GradientDescent"
    /\ Input
    /\ reset(funcIndex)
    /\ Handled("reset")
    /\ UNCHANGED notGD
    /\ UNCHANGED << view, funcIndex, learningRate, camVars, dragging >>

\* a selector whose effect resets with the function of the previous render
GDSelectFunction_StaleStart(i) ==
    /\ view = "GradientDescent"
    /\ Input
    /\ ~isRunning
    /\ i # funcIndex
    /\ funcIndex' = i
    /\ reset(funcIndex)
    /\ Handled("selectFunction")
    /\ UNCHANGED notGD
    /\ UNCHANGED << view, learningRate, camVars, dragging >>

\* the function selector (disabled while running), then the effect on funcIndex
GDSelectFunction(i) ==
    /\ view = "GradientDescent"
    /\ Input
    /\ ~isRunning
    /\ i # funcIndex
    /\ funcIndex' = i
    /\ reset(i)
    /\ Handled("selectFunction")
    /\ UNCHANGED notGD
    /\ UNCHANGED << view, learningRate, camVars, dragging >>

\* the learning-rate slider (disabled while running)
GDSetLearningRate(lr) ==
    /\ view = "GradientDescent"
    /\ Input
    /\ ~isRunning
    /\ lr # learningRate
    /\ learningRate' = lr
    /\ Handled("setLearningRate")
    /\ UNCHANGED notGD
    /\ UNCHANGED << view, funcIndex, isRunning, position, path,
                    iteration, camVars, dragging >>

\* the start / pause button
GDToggleRunning ==
    /\ view = "GradientDescent"
    /\ Input
    /\ isRunning' = ~isRunning
    /\ Handled("toggleRunning")
    /\ UNCHANGED notGD
    /\ UNCHANGED << view, funcIndex, learningRate, position, path,
                    iteration, camVars, dragging >>

\* a pointer-down that grabs the ball without pausing the stepper
GDMouseDown_KeepsRunning(dist) ==
    /\ view = "GradientDescent"
    /\ Input
    /\ IF dist < 15
       THEN /\ dragging' = "BALL"
            /\ path' = << >>
            /\ iteration' = 0
            /\ UNCHANGED isRunning
       ELSE /\ dragging' = "ORBIT"
            /\ UNCHANGED << isRunning, path, iteration >>
    /\ HandledDown(IF dist < 15 THEN "BALL" ELSE "none")
    /\ UNCHANGED notGD
    /\ UNCHANGED << view, funcIndex, learningRate, position, camVars >>

\* dist: pixels between the pointer and the projected ball
GDMouseDown(dist) ==
    /\ view = "GradientDescent"
    /\ Input
    /\ IF dist < 15
       THEN /\ dragging' = "BALL"
            /\ isRunning' = FALSE
            /\ path' = << >>
            /\ iteration' = 0
       ELSE /\ dragging' = "ORBIT"
            /\ UNCHANGED << isRunning, path, iteration >>
    /\ HandledDown(IF dist < 15 THEN "BALL" ELSE "none")
    /\ UNCHANGED notGD
    /\ UNCHANGED << view, funcIndex, learningRate, position, camVars >>

GDMouseMove(dx, dy) ==
    /\ view = "GradientDescent"
    /\ Input
    /\ Handled("mouseMove")
    /\ UNCHANGED notGD
    /\ CASE dragging = NoDrag ->
              UNCHANGED << position, camera >>
         [] dragging = "ORBIT" ->
              /\ camera' = [ x |-> camera.x + dy, y |-> camera.y + dx ]
              /\ UNCHANGED position
         [] dragging = "BALL" ->
              LET cosY == Cos(10 * camera.y)
                  sinY == Sin(10 * camera.y)
                  dX == Rnd(dx * cosY + dy * sinY, scale)
                  dY == Rnd(dy * cosY - dx * sinY, scale)
              IN  /\ position' = [ x |-> Max(-4 * Unit, Min(4 * Unit, position.x + dX)),
                                   y |-> Max(-4 * Unit, Min(4 * Unit, position.y + dY)) ]
                  /\ UNCHANGED camera
    /\ UNCHANGED << view, funcIndex, learningRate, isRunning, path, iteration,
                    scale, pan, dragging >>

GDMouseUp ==
    /\ view = "GradientDescent"
    /\ Input
    /\ dragging' = NoDrag
    /\ Handled("mouseUp")
    /\ UNCHANGED notGD
    /\ UNCHANGED << view, gdVars, camVars >>

\* onMouseLeave={handleMouseUp}
GDMouseLeave ==
    /\ view = "GradientDescent"
    /\ Input
    /\ dragging' = NoDrag
    /\ Handled("mouseLeave")
    /\ UNCHANGED notGD
    /\ UNCHANGED << view, gdVars, camVars >>

GDWheel(up) ==
    /\ view = "GradientDescent"
    /\ Input
    /\ scale' = zoomScale(scale, up, 20, 150)
    /\ Handled("wheel")
    /\ UNCHANGED notGD
    /\ UNCHANGED << view, gdVars, camera, pan, dragging >>

InitGD ==
    /\ view = "GradientDescent"
    /\ NoHistory
    /\ funcIndex = 0
    /\ learningRate = 10
    /\ isRunning = FALSE
    /\ position = FUNCTIONS[0].start
    /\ path = << >>
    /\ iteration = 0
    /\ camera = [ x |-> -50, y |-> 50 ]
    /\ scale = 40
    /\ pan = Origin
    /\ dragging = NoDrag
    /\ cameraAngle = Origin /\ is3D = TRUE
    /\ NoMatrixMultiplication /\ NoLineEquation /\ NoVectorVisualizer
    /\ NoOtherViews

NextGD ==
    \/ GDTick
    \/ GDReset
    \/ \E i \in 0..2 : GDSelectFunction(i)
    \/ \E lr \in LearningRates : GDSetLearningRate(lr)
    \/ GDToggleRunning
    \/ \E dist \in HitDists : GDMouseDown(dist)
    \/ \E d \in Deltas : GDMouseMove(d[1], d[2])
    \/ GDMouseUp
    \/ GDMouseLeave
    \/ \E up \in BOOLEAN : GDWheel(up)

SpecGD == InitGD /\ [][NextGD]_vars


\* --------------------------------------------- the stepper left to itself
\* accepted steps of an unattended run
MaxRunIter == 150

\* the user sets the learning rate before the run ...
RunSetLearningRate(lr) ==
    /\ event = "mount"
    /\ GDSetLearningRate(lr)

\* ... presses start once ...
RunStart ==
    /\ event \in { "mount", "setLearningRate" }
    /\ GDToggleRunning

\* ... and leaves the interval to tick
RunTick ==
    /\ view = "GradientDescent"
    /\ isRunning
    /\ iteration < MaxRunIter
    /\ step
    /\ Handled("tick")
    /\ UNCHANGED << view, nInputs, funcIndex, learningRate, camVars, dragging >>
    /\ UNCHANGED notGD

NextRun ==
    \/ \E lr \in LearningRates : RunSetLearningRate(lr)
    \/ RunStart
    \/ RunTick

SpecRun == InitGD /\ [][NextRun]_vars /\ WF_vars(RunTick)

\* ============================================= MatrixMultiplicationLevel
\* queued steps the model lets the user build
MaxQueue == 3

\* matrix coefficients are held in 1/MScale: a product of MaxQueue steps of
\* coefficients 0, 1, -1, 1.5 is exact
MScale == 2 ^ MaxQueue

\* frames of one animated step: progress advances by 0.02 per frame
ProgressEnd == 50

StepTypes == { "ROTATE", "SCALE", "SHEAR", "REFLECT" }

StepMatrix(type) ==
    CASE type = "ROTATE"  -> [ a |-> 0, b |-> -MScale, c |-> MScale, d |-> 0 ]
      [] type = "SCALE"   -> [ a |-> (3 * MScale) \div 2, b |-> 0,
                               c |-> 0, d |-> (3 * MScale) \div 2 ]
      [] type = "SHEAR"   -> [ a |-> MScale, b |-> MScale, c |-> 0, d |-> MScale ]
      [] type = "REFLECT" -> [ a |-> -MScale, b |-> 0, c |-> 0, d |-> MScale ]

IdentityM == [ a |-> MScale, b |-> 0, c |-> 0, d |-> MScale ]

\* a product with the operands exchanged: (B * A)
multiply_Exchanged(m1, m2) ==
    [ a |-> (m2.a * m1.a + m2.b * m1.c) \div MScale,
      b |-> (m2.a * m1.b + m2.b * m1.d) \div MScale,
      c |-> (m2.c * m1.a + m2.d * m1.c) \div MScale,
      d |-> (m2.c * m1.b + m2.d * m1.d) \div MScale ]

\* (A * B): apply B first, then A
multiply(m1, m2) ==
    [ a |-> (m1.a * m2.a + m1.b * m2.c) \div MScale,
      b |-> (m1.a * m2.b + m1.b * m2.d) \div MScale,
      c |-> (m1.c * m2.a + m1.d * m2.c) \div MScale,
      d |-> (m1.c * m2.b + m1.d * m2.d) \div MScale ]

\* transform(p, m): the image of point p under m
transform(p, m) ==
    [ x |-> (m.a * p.x + m.b * p.y) \div MScale,
      y |-> (m.c * p.x + m.d * p.y) \div MScale ]

\* smoothstep of progress p (in frames), as a fraction of SmoothDen
SmoothDen == ProgressEnd * ProgressEnd * ProgressEnd
smoothstep(p) == p * p * (3 * ProgressEnd - 2 * p)

\* lerpMatrix with t = tn / SmoothDen
lerpMatrix(m1, m2, tn) ==
    [ a |-> m1.a + Rnd((m2.a - m1.a) * tn, SmoothDen),
      b |-> m1.b + Rnd((m2.b - m1.b) * tn, SmoothDen),
      c |-> m1.c + Rnd((m2.c - m1.c) * tn, SmoothDen),
      d |-> m1.d + Rnd((m2.d - m1.d) * tn, SmoothDen) ]

\* the effect "Update Visual Matrix based on Animation" for an animating view
visualMatrix(q, idx, acc, p) ==
    lerpMatrix(acc, multiply(q[idx + 1].matrix, acc), smoothstep(p))

notMM == << camera, cameraAngle, is3D, scale, gdVars, lineVars, vvVars,
           otherVars >>

\* one animation frame: the updater passed to setProgress, then the effects
\* of the render it causes (a new step restarts the loop, whose first call
\* advances progress at once)
MMFrame ==
    /\ view = "MatrixMultiplicationLevel"
    /\ isAnimating
    /\ LET next == progress + 1
       IN  IF next >= ProgressEnd
           THEN IF stepIndex < Len(queue) - 1
                THEN LET newAcc == multiply(queue[stepIndex + 1].matrix,
                                            accumulatedMatrix)
                     IN  /\ accumulatedMatrix' = newAcc
                         /\ stepIndex' = stepIndex + 1
                         /\ progress' = 1
                         /\ currentMatrix' =
                                visualMatrix(queue, stepIndex + 1, newAcc, 1)
                         /\ animated' = Append(animated, stepIndex)
                         /\ UNCHANGED isAnimating
                ELSE /\ currentMatrix' = multiply(queue[stepIndex + 1].matrix,
                                                  accumulatedMatrix)
                     /\ isAnimating' = FALSE
                     /\ progress' = ProgressEnd
                     /\ animated' = Append(animated, stepIndex)
                     /\ UNCHANGED << accumulatedMatrix, stepIndex >>
           ELSE /\ progress' = next
                /\ currentMatrix' =
                       visualMatrix(queue, stepIndex, accumulatedMatrix, next)
                /\ UNCHANGED << accumulatedMatrix, stepIndex, isAnimating,
                                animated >>
    /\ Handled("frame")
    /\ UNCHANGED << view, nInputs, queue, pan, dragging >>
    /\ UNCHANGED notMM
    \* each setCurrentMatrix of the frame's renders makes a new draw
    /\ startLoops(IF stepIndex' # stepIndex THEN 2 ELSE 1)

\* an addStep without the test of isAnimating
MMAddStep_WhileAnimating(type) ==
    /\ view = "MatrixMultiplicationLevel"
    /\ Input
    /\ Len(queue) < MaxQueue
    /\ queue' = Append(queue, [ name |-> type, matrix |-> StepMatrix(type) ])
    /\ Handled("addStep")
    /\ UNCHANGED << view, isAnimating, currentMatrix, stepIndex, progress,
                    accumulatedMatrix, animated, pan, dragging >>
    /\ UNCHANGED notMM
    /\ startLoops(0)

\* addStep: if (isAnimating) return
MMAddStep(type) ==
    /\ view = "MatrixMultiplicationLevel"
    /\ Input
    /\ ~isAnimating
    /\ Len(queue) < MaxQueue
    /\ queue' = Append(queue, [ name |-> type, matrix |-> StepMatrix(type) ])
    /\ Handled("addStep")
    /\ UNCHANGED << view, isAnimating, currentMatrix, stepIndex, progress,
                    accumulatedMatrix, animated, pan, dragging >>
    /\ UNCHANGED notMM
    \* no dependency of draw changes
    /\ startLoops(0)

\* removeStep, then the effect that clears the matrices of an empty queue
MMRemoveStep(idx) ==
    /\ view = "MatrixMultiplicationLevel"
    /\ Input
    /\ ~isAnimating
    /\ idx \in 0..(Len(queue) - 1)
    /\ queue' = [ i \in 1..(Len(queue) - 1) |->
                    IF i <= idx THEN queue[i] ELSE queue[i + 1] ]
    /\ IF Len(queue) = 1
       THEN currentMatrix' = IdentityM /\ accumulatedMatrix' = IdentityM
       ELSE UNCHANGED << currentMatrix, accumulatedMatrix >>
    /\ Handled("removeStep")
    /\ UNCHANGED << view, isAnimating, stepIndex, progress, animated, pan,
                    dragging >>
    /\ UNCHANGED notMM
    /\ startLoops(IF queue' = << >> THEN 1 ELSE 0)

\* runSequence (button disabled while animating or with an empty queue), then
\* the animation effect, whose first call of loop() advances progress
MMRunSequence ==
    /\ view = "MatrixMultiplicationLevel"
    /\ Input
    /\ ~isAnimating
    /\ Len(queue) # 0
    /\ accumulatedMatrix' = IdentityM
    /\ stepIndex' = 0
    /\ progress' = 1
    /\ isAnimating' = TRUE
    /\ currentMatrix' = visualMatrix(queue, 0, IdentityM, 1)
    /\ animated' = << >>
    /\ Handled("runSequence")
    /\ UNCHANGED << view, queue, pan, dragging >>
    /\ UNCHANGED notMM
    \* setCurrentMatrix in runSequence, in the effect, and after the first loop()
    /\ startLoops(3)

\* reset (button disabled while a non-empty queue is animating)
MMReset ==
    /\ view = "MatrixMultiplicationLevel"
    /\ Input
    /\ ~(isAnimating /\ Len(queue) > 0)
    /\ isAnimating' = FALSE
    /\ queue' = << >>
    /\ currentMatrix' = IdentityM
    /\ accumulatedMatrix' = IdentityM
    /\ Handled("reset")
    /\ UNCHANGED << view, stepIndex, progress, animated, pan, dragging >>
    /\ UNCHANGED notMM
    \* setCurrentMatrix in reset and in the effect of the empty queue
    /\ startLoops(2)

\* the view has one drag target: dragging = true pans
MMMouseDown ==
    /\ view = "MatrixMultiplicationLevel"
    /\ Input
    /\ dragging' = TRUE
    /\ HandledDown("none")
    /\ UNCHANGED << view, mmVars, pan >>
    /\ UNCHANGED notMM
    /\ startLoops(0)

MMMouseMove(dx, dy) ==
    /\ view = "MatrixMultiplicationLevel"
    /\ Input
    /\ IF dragging
       THEN pan' = [ x |-> pan.x + dx, y |-> pan.y + dy ]
       ELSE UNCHANGED pan
    /\ Handled("mouseMove")
    /\ UNCHANGED << view, mmVars, dragging >>
    /\ UNCHANGED notMM
    \* setPan is given a new object
    /\ startLoops(IF dragging THEN 1 ELSE 0)

MMMouseUp ==
    /\ view = "MatrixMultiplicationLevel"
    /\ Input
    /\ dragging' = FALSE
    /\ Handled("mouseUp")
    /\ UNCHANGED << view, mmVars, pan >>
    /\ UNCHANGED notMM
    /\ startLoops(0)

\* onMouseLeave={handleMouseUp}
MMMouseLeave ==
    /\ view = "MatrixMultiplicationLevel"
    /\ Input
    /\ dragging' = FALSE
    /\ Handled("mouseLeave")
    /\ UNCHANGED << view, mmVars, pan >>
    /\ UNCHANGED notMM
    /\ startLoops(0)

MMWheel(up) ==
    /\ view = "MatrixMultiplicationLevel"
    /\ Input
    /\ scale' = zoomScale(scale, up, 10, 200)
    /\ Handled("wheel")
    /\ UNCHANGED << view, mmVars, pan, dragging >>
    /\ UNCHANGED << camera, cameraAngle, is3D, gdVars, lineVars, vvVars,
                    otherVars >>
    /\ startLoops(IF scale' # scale THEN 1 ELSE 0)

InitMM ==
    /\ view = "MatrixMultiplicationLevel"
    /\ NoHistory
    /\ queue = << >>
    /\ isAnimating = FALSE
    /\ currentMatrix = IdentityM
    /\ stepIndex = 0
    /\ progress = 0
    /\ accumulatedMatrix = IdentityM
    /\ animated = << >>
    /\ scale = 30
    /\ pan = Origin
    /\ dragging = FALSE
    /\ camera = Origin /\ cameraAngle = Origin /\ is3D = FALSE
    /\ position = Origin
    /\ NoGradientDescent /\ NoLineEquation /\ NoVectorVisualizer
    /\ NoOtherViews

NextMM ==
    \/ MMFrame
    \/ \E type \in StepTypes : MMAddStep(type)
    \/ \E idx \in 0..(MaxQueue - 1) : MMRemoveStep(idx)
    \/ MMRunSequence
    \/ MMReset
    \/ MMMouseDown
    \/ \E d \in Deltas : MMMouseMove(d[1], d[2])
    \/ MMMouseUp
    \/ MMMouseLeave
    \/ \E up \in BOOLEAN : MMWheel(up)

SpecMM == InitMM /\ [][NextMM]_vars

\* ====================================================== the number fields
\* the values a number field hands to its onChange handler, one character
\* per element
Values ==
    { << >>, << "-" >>, << "7" >>, << "-", "2", ".", "5" >>, << "3", "x" >>,
      << "4", "0" >> }

DigitChars == { "0", "1", "2", "3", "4", "5", "6", "7", "8", "9" }

digit(c) ==
    CASE c = "0" -> 0 [] c = "1" -> 1 [] c = "2" -> 2 [] c = "3" -> 3
      [] c = "4" -> 4 [] c = "5" -> 5 [] c = "6" -> 6 [] c = "7" -> 7
      [] c = "8" -> 8 [] c = "9" -> 9

\* the longest prefix of s made of digits
RECURSIVE digits(_)
digits(s) ==
    IF s = << >> \/ Head(s) \notin DigitChars THEN << >>
    ELSE << Head(s) >> \o digits(Tail(s))

\* the natural number a string of digits denotes
RECURSIVE natural(_)
natural(ds) ==
    IF ds = << >> THEN 0
    ELSE 10 * natural(SubSeq(ds, 1, Len(ds) - 1)) + digit(ds[Len(ds)])

RECURSIVE trimStart(_)
trimStart(s) ==
    IF s # << >> /\ Head(s) = " " THEN trimStart(Tail(s)) ELSE s

\* parseFloat: the longest numeric prefix of val in thousandths, or NaN
\* when val starts with no number
parseFloat(val) ==
    LET s0   == trimStart(val)
        neg  == s0 # << >> /\ Head(s0) = "-"
        body == IF s0 # << >> /\ Head(s0) \in { "+", "-" } THEN Tail(s0) ELSE s0
        ip   == digits(body)
        rest == SubSeq(body, Len(ip) + 1, Len(body))
        fp   == IF rest # << >> /\ Head(rest) = "." THEN digits(Tail(rest))
                ELSE << >>
        k    == Min(3, Len(fp))
        mag  == natural(ip) * Unit + natural(SubSeq(fp, 1, k)) * 10 ^ (3 - k)
    IN  IF ip = << >> /\ fp = << >> THEN [ nan |-> TRUE, num |-> 0 ]
        ELSE [ nan |-> FALSE, num |-> IF neg THEN -mag ELSE mag ]

\* r || 0 for the result r of parseFloat: NaN and 0 are falsy
orZero(r) == IF r.nan THEN 0 ELSE r.num

\* Number(n.toFixed(1)) on thousandths
toFixed1(n) == 100 * Rnd(n, 100)

\* the number fields the model edits (vector, axis)
Fields == { << "A", "x" >>, << "B", "x" >>, << "B", "y" >>, << "A", "z" >> }

\* an edit of a number field: the model edits among its first MaxEdits inputs
EditInput == Input /\ nInputs < MaxEdits

\* the number that stands for NaN among the values of a hook: no parsed text
\* and no arithmetic of the model reaches it
NaN == -(10 ^ 9)

\* ===================================================== LineEquationLevel
notLine == << camera, scale, position, funcIndex, learningRate, isRunning,
              path, iteration, mmVars, vvVars, otherVars >>

\* dP, dV: pixels between the pointer and the projected P, the projected tip of V
LineMouseDown(dP, dV) ==
    /\ view = "LineEquationLevel"
    /\ Input
    /\ dragging' = IF dP < 15 THEN "P"
                   ELSE IF dV < 15 THEN "V"
                   ELSE IF is3D THEN "ORBIT" ELSE dragging
    /\ HandledDownOfTwo(IF dP < 15 THEN "P" ELSE IF dV < 15 THEN "V" ELSE "none",
                        dP < 15 /\ dV < 15)
    /\ UNCHANGED << view, cameraAngle, is3D, pan, lineVars >>
    /\ UNCHANGED notLine

LineMouseMove(dx, dy) ==
    /\ view = "LineEquationLevel"
    /\ Input
    /\ LET cosY == Cos(10 * cameraAngle.y)
           sinY == Sin(10 * cameraAngle.y)
           moveX == IF is3D THEN Rnd(dx * cosY, scale) ELSE Rnd(dx * Unit, scale)
           moveY == Rnd(-dy * Unit, scale)
           moveZ == IF is3D THEN Rnd(dx * sinY, scale) ELSE 0
       IN  CASE dragging = NoDrag ->
                  UNCHANGED << cameraAngle, pointP, dirV >>
             [] dragging = "ORBIT" ->
                  /\ cameraAngle' = [ x |-> cameraAngle.x + dy,
                                      y |-> cameraAngle.y + dx ]
                  /\ UNCHANGED << pointP, dirV >>
             [] dragging = "P" ->
                  /\ pointP' = [ x |-> pointP.x + moveX, y |-> pointP.y + moveY,
                                 z |-> pointP.z + moveZ ]
                  /\ UNCHANGED << cameraAngle, dirV >>
             [] dragging = "V" ->
                  /\ dirV' = [ x |-> dirV.x + moveX, y |-> dirV.y + moveY,
                               z |-> dirV.z + moveZ ]
                  /\ UNCHANGED << cameraAngle, pointP >>
    /\ Handled("mouseMove")
    /\ UNCHANGED << view, is3D, pan, dragging >>
    /\ UNCHANGED notLine

LineMouseUp ==
    /\ view = "LineEquationLevel"
    /\ Input
    /\ dragging' = NoDrag
    /\ Handled("mouseUp")
    /\ UNCHANGED << view, cameraAngle, is3D, pan, lineVars >>
    /\ UNCHANGED notLine

\* the container registers no onMouseLeave: the event changes no state
LineMouseLeave ==
    /\ view = "LineEquationLevel"
    /\ Input
    /\ Handled("mouseLeave")
    /\ UNCHANGED << view, cameraAngle, is3D, pan, dragging, lineVars >>
    /\ UNCHANGED notLine

LineWheel(up) ==
    /\ view = "LineEquationLevel"
    /\ Input
    /\ scale' = zoomScale(scale, up, 10, 200)
    /\ Handled("wheel")
    /\ UNCHANGED << view, cameraAngle, is3D, pan, dragging, lineVars >>
    /\ UNCHANGED << camera, gdVars, mmVars, vvVars, otherVars >>

LineSet2D ==
    /\ view = "LineEquationLevel"
    /\ Input
    /\ is3D' = FALSE
    /\ cameraAngle' = Origin
    /\ pan' = Origin
    /\ Handled("set2D")
    /\ UNCHANGED << view, dragging, lineVars >>
    /\ UNCHANGED notLine

LineSet3D ==
    /\ view = "LineEquationLevel"
    /\ Input
    /\ is3D' = TRUE
    /\ cameraAngle' = [ x |-> -30, y |-> 50 ]
    /\ Handled("set3D")
    /\ UNCHANGED << view, pan, dragging, lineVars >>
    /\ UNCHANGED notLine

\* what the parameter field and the parameter slider leave alone
notLineT ==
    << view, camVars, cameraAngle, is3D, dragging, gdVars, mmVars, lineVars,
       vvVars, abVars, currentPreset, isPlaying, probeBase, mtVars, drawVars,
       ivVars, matrix >>

\* the number field of the parameter: setT(parseFloat(e.target.value)); the
\* hook t of this view is in thousandths
LineSetT(val) ==
    /\ view = "LineEquationLevel"
    /\ EditInput
    /\ t' = (IF parseFloat(val).nan THEN NaN ELSE parseFloat(val).num)
    /\ Handled("change")
    /\ UNCHANGED notLineT

\* the slider of the parameter (min -5, max 5): its value always parses
LineSlideT(v) ==
    /\ view = "LineEquationLevel"
    /\ EditInput
    /\ t' = v
    /\ Handled("slide")
    /\ UNCHANGED notLineT

InitLine ==
    /\ view = "LineEquationLevel"
    /\ NoHistory
    /\ pointP = [ x |-> -2 * Unit, y |-> -1 * Unit, z |-> 0 ]
    /\ dirV = [ x |-> Unit, y |-> Unit, z |-> 0 ]
    /\ is3D = FALSE
    /\ cameraAngle = [ x |-> -30, y |-> 50 ]
    /\ scale = 40
    /\ pan = Origin
    /\ dragging = NoDrag
    /\ camera = Origin /\ position = Origin
    /\ NoGradientDescent /\ NoMatrixMultiplication /\ NoVectorVisualizer
    /\ NoOtherViews

NextLine ==
    \/ \E dP \in HitDists, dV \in HitDists : LineMouseDown(dP, dV)
    \/ \E d \in Deltas : LineMouseMove(d[1], d[2])
    \/ LineMouseUp
    \/ LineMouseLeave
    \/ LineSet2D
    \/ LineSet3D
    \/ \E up \in BOOLEAN : LineWheel(up)
    \/ \E val \in Values : LineSetT(val)
    \/ \E v \in { -5 * Unit, 2500 } : LineSlideT(v)

\* ============================================================= CurlLevel
notCurl == << cameraAngle, scale, funcIndex, learningRate, isRunning, path,
              iteration, mmVars, lineVars, vvVars, otherVars >>

\* dist: pixels between the pointer and the projected probe
CurlMouseDown(dist) ==
    /\ view = "CurlLevel"
    /\ Input
    /\ dragging' = IF dist < 30 THEN "PROBE" ELSE "ORBIT"
    /\ HandledDown(IF dist < 30 THEN "PROBE" ELSE "none")
    /\ UNCHANGED << view, camera, is3D, pan, position >>
    /\ UNCHANGED notCurl

CurlMouseMove(dx, dy) ==
    /\ view = "CurlLevel"
    /\ Input
    /\ CASE dragging = NoDrag ->
              UNCHANGED << camera, position >>
         [] dragging = "ORBIT" ->
              /\ camera' = [ x |-> camera.x + dy, y |-> camera.y + dx ]
              /\ UNCHANGED position
         [] OTHER ->
              LET cosY == Cos(10 * camera.y)
                  sinY == Sin(10 * camera.y)
                  dX == Rnd(dx * cosY + dy * sinY, scale)
                  dZ == Rnd(dy * cosY - dx * sinY, scale)
              IN  /\ position' = [ x |-> Max(-3500, Min(3500, position.x + dX)),
                                   y |-> Max(-3500, Min(3500, position.y + dZ)) ]
                  /\ UNCHANGED camera
    /\ Handled("mouseMove")
    /\ UNCHANGED << view, is3D, pan, dragging >>
    /\ UNCHANGED notCurl

CurlMouseUp ==
    /\ view = "CurlLevel"
    /\ Input
    /\ dragging' = NoDrag
    /\ Handled("mouseUp")
    /\ UNCHANGED << view, camera, is3D, pan, position >>
    /\ UNCHANGED notCurl

\* onMouseLeave={handleMouseUp}
CurlMouseLeave ==
    /\ view = "CurlLevel"
    /\ Input
    /\ dragging' = NoDrag
    /\ Handled("mouseLeave")
    /\ UNCHANGED << view, camera, is3D, pan, position >>
    /\ UNCHANGED notCurl

\* the container registers no onWheel: the event changes no state
CurlWheel(up) ==
    /\ view = "CurlLevel"
    /\ Input
    /\ Handled("wheel")
    /\ UNCHANGED << view, camera, is3D, pan, position, dragging >>
    /\ UNCHANGED notCurl

CurlSet2D ==
    /\ view = "CurlLevel"
    /\ Input
    /\ is3D' = FALSE
    /\ camera' = [ x |-> -60, y |-> 50 ]
    /\ Handled("set2D")
    /\ UNCHANGED << view, pan, dragging, position >>
    /\ UNCHANGED notCurl

CurlSet3D ==
    /\ view = "CurlLevel"
    /\ Input
    /\ is3D' = TRUE
    /\ camera' = [ x |-> -60, y |-> 50 ]
    /\ Handled("set3D")
    /\ UNCHANGED << view, pan, dragging, position >>
    /\ UNCHANGED notCurl

InitCurl ==
    /\ view = "CurlLevel"
    /\ NoHistory
    /\ position = [ x |-> 1500, y |-> 1500 ]
    /\ is3D = FALSE
    /\ camera = [ x |-> -60, y |-> 50 ]
    /\ scale = 50
    /\ pan = Origin
    /\ dragging = NoDrag
    /\ cameraAngle = Origin
    /\ NoGradientDescent /\ NoMatrixMultiplication /\ NoLineEquation
    /\ NoVectorVisualizer /\ NoOtherViews

NextCurl ==
    \/ \E dist \in HitDists : CurlMouseDown(dist)
    \/ \E d \in Deltas : CurlMouseMove(d[1], d[2])
    \/ CurlMouseUp
    \/ CurlMouseLeave
    \/ CurlSet2D
    \/ CurlSet3D
    \/ \E up \in BOOLEAN : CurlWheel(up)

\* ====================================================== VectorVisualizer
notVV == << camera, dragging, position, funcIndex, learningRate, isRunning,
            path, iteration, mmVars, lineVars, otherVars >>

\* Math.PI / 2 in hundredths of a radian
HalfPi == 157

\* dist: pixels between the pointer and the projected tip of the vector
VVMouseDown(dist) ==
    /\ view = "VectorVisualizer"
    /\ Input
    /\ IF dist < 15
       THEN isDraggingVector' = TRUE /\ UNCHANGED isOrbiting
       ELSE isOrbiting' = TRUE /\ UNCHANGED isDraggingVector
    /\ HandledDown(IF dist < 15 THEN "VECTOR" ELSE "none")
    /\ UNCHANGED << view, cameraAngle, is3D, scale, pan, vector >>
    /\ UNCHANGED notVV

VVMouseMove(dx, dy) ==
    /\ view = "VectorVisualizer"
    /\ Input
    /\ IF isDraggingVector
       THEN /\ vector' =
                 IF is3D
                 THEN [ x |-> vector.x + Rnd(dx * Cos(10 * cameraAngle.y), scale),
                        y |-> vector.y - Rnd(dy * Unit, scale),
                        z |-> vector.z + Rnd(dx * Sin(10 * cameraAngle.y), scale) ]
                 ELSE [ x |-> vector.x + Rnd(dx * Unit, scale),
                        y |-> vector.y - Rnd(dy * Unit, scale),
                        z |-> vector.z ]
            /\ UNCHANGED cameraAngle
       ELSE IF isOrbiting /\ is3D
       THEN /\ cameraAngle' =
                 [ x |-> Max(-HalfPi, Min(HalfPi, cameraAngle.x + dy)),
                   y |-> cameraAngle.y + dx ]
            /\ UNCHANGED vector
       ELSE UNCHANGED << vector, cameraAngle >>
    /\ Handled("mouseMove")
    /\ UNCHANGED << view, is3D, scale, pan, isDraggingVector, isOrbiting >>
    /\ UNCHANGED notVV

VVMouseUp ==
    /\ view = "VectorVisualizer"
    /\ Input
    /\ isDraggingVector' = FALSE
    /\ isOrbiting' = FALSE
    /\ Handled("mouseUp")
    /\ UNCHANGED << view, cameraAngle, is3D, scale, pan, vector >>
    /\ UNCHANGED notVV

\* onMouseLeave={handleMouseUp}
VVMouseLeave ==
    /\ view = "VectorVisualizer"
    /\ Input
    /\ isDraggingVector' = FALSE
    /\ isOrbiting' = FALSE
    /\ Handled("mouseLeave")
    /\ UNCHANGED << view, cameraAngle, is3D, scale, pan, vector >>
    /\ UNCHANGED notVV

\* handleCanvasWheel: zooms about the pointer, c pixels from the centre
VVWheel(up, c) ==
    /\ view = "VectorVisualizer"
    /\ Input
    /\ LET newScale == zoomScale(scale, up, 5, 500)
       IN  /\ pan' = [ x |-> c[1] - Rnd((c[1] - pan.x) * newScale, scale),
                       y |-> c[2] - Rnd((c[2] - pan.y) * newScale, scale) ]
           /\ scale' = newScale
    /\ Handled("wheel")
    /\ UNCHANGED << view, cameraAngle, is3D, vector, isDraggingVector,
                    isOrbiting >>
    /\ UNCHANGED notVV

VVSet2D ==
    /\ view = "VectorVisualizer"
    /\ Input
    /\ is3D' = FALSE
    /\ cameraAngle' = Origin
    /\ pan' = Origin
    /\ scale' = 40
    /\ Handled("set2D")
    /\ UNCHANGED << view, vvVars >>
    /\ UNCHANGED notVV

VVSet3D ==
    /\ view = "VectorVisualizer"
    /\ Input
    /\ is3D' = TRUE
    /\ cameraAngle' = [ x |-> -30, y |-> 50 ]
    /\ Handled("set3D")
    /\ UNCHANGED << view, scale, pan, vvVars >>
    /\ UNCHANGED notVV

\* the cartesian number fields: setVector({...vector, x: parseFloat(..) || 0})
VVChange(axis, val) ==
    /\ view = "VectorVisualizer"
    /\ EditInput
    /\ axis = "z" => is3D
    /\ vector' = [ vector EXCEPT ![axis] = orZero(parseFloat(val)) ]
    /\ Handled("change")
    /\ UNCHANGED << view, cameraAngle, is3D, scale, pan, isDraggingVector,
                    isOrbiting >>
    /\ UNCHANGED notVV

InitVV ==
    /\ view = "VectorVisualizer"
    /\ NoHistory
    /\ vector = [ x |-> 3 * Unit, y |-> 4 * Unit, z |-> 0 ]
    /\ isDraggingVector = FALSE
    /\ isOrbiting = FALSE
    /\ is3D = FALSE
    /\ cameraAngle = [ x |-> -30, y |-> 50 ]
    /\ scale = 40
    /\ pan = Origin
    /\ camera = Origin /\ position = Origin /\ dragging = NoDrag
    /\ NoGradientDescent /\ NoMatrixMultiplication /\ NoLineEquation
    /\ NoOtherViews

NextVV ==
    \/ \E dist \in HitDists : VVMouseDown(dist)
    \/ \E d \in Deltas : VVMouseMove(d[1], d[2])
    \/ VVMouseUp
    \/ VVMouseLeave
    \/ VVSet2D
    \/ VVSet3D
    \/ \E up \in BOOLEAN, c \in CursorOffsets : VVWheel(up, c)
    \/ \E axis \in { "x", "y", "z" }, val \in Values : VVChange(axis, val)

\* ====================================================== VectorPlayground
notVP == << camera, gdVars, mmVars, lineVars, vector, isDraggingVector,
            cameraY, eigVars, mtVars, drawVars, ivVars, matrix >>

\* a pointer-down that tests B before A
VPMouseDown_BFirst(dA, dB) ==
    /\ view = "VectorPlayground"
    /\ Input
    /\ buttons' = 1
    /\ IF dB < 20 THEN dragging' = "B" /\ UNCHANGED isOrbiting
       ELSE IF dA < 20 THEN dragging' = "A" /\ UNCHANGED isOrbiting
       ELSE /\ isOrbiting' = (is3D \/ isOrbiting)
            /\ UNCHANGED dragging
    /\ HandledDownOfTwo(IF dA < 20 THEN "A" ELSE IF dB < 20 THEN "B" ELSE "none",
                        dA < 20 /\ dB < 20)
    /\ UNCHANGED << view, is3D, cameraAngle, scale, pan, vecA, vecB >>
    /\ UNCHANGED notVP

\* dA, dB: pixels between the pointer and the projected tips of A and B
VPMouseDown(dA, dB) ==
    /\ view = "VectorPlayground"
    /\ Input
    /\ buttons' = 1
    /\ IF dA < 20 THEN dragging' = "A" /\ UNCHANGED isOrbiting
       ELSE IF dB < 20 THEN dragging' = "B" /\ UNCHANGED isOrbiting
       ELSE /\ isOrbiting' = (is3D \/ isOrbiting)
            /\ UNCHANGED dragging
    /\ HandledDownOfTwo(IF dA < 20 THEN "A" ELSE IF dB < 20 THEN "B" ELSE "none",
                        dA < 20 /\ dB < 20)
    /\ UNCHANGED << view, is3D, cameraAngle, scale, pan, vecA, vecB >>
    /\ UNCHANGED notVP

VPMouseMove(dx, dy) ==
    /\ view = "VectorPlayground"
    /\ Input
    /\ LET cosY == Cos(10 * cameraAngle.y)
           sinY == Sin(10 * cameraAngle.y)
           updateVector(prev) ==
               IF is3D
               THEN [ x |-> prev.x + Rnd(dx * cosY, scale),
                      y |-> prev.y - Rnd(dy * Unit, scale),
                      z |-> prev.z + Rnd(dx * sinY, scale) ]
               ELSE [ x |-> prev.x + Rnd(dx * Unit, scale),
                      y |-> prev.y - Rnd(dy * Unit, scale),
                      z |-> prev.z ]
       IN  CASE dragging = "A" ->
                  /\ vecA' = updateVector(vecA)
                  /\ UNCHANGED << vecB, cameraAngle, pan >>
             [] dragging = "B" ->
                  /\ vecB' = updateVector(vecB)
                  /\ UNCHANGED << vecA, cameraAngle, pan >>
             [] dragging = NoDrag /\ isOrbiting /\ is3D ->
                  /\ cameraAngle' =
                         [ x |-> Max(-HalfPi, Min(HalfPi, cameraAngle.x + dy)),
                           y |-> cameraAngle.y + dx ]
                  /\ UNCHANGED << vecA, vecB, pan >>
             [] dragging = NoDrag /\ ~(isOrbiting /\ is3D)
                                  /\ buttons = 1 /\ ~is3D ->
                  /\ pan' = [ x |-> pan.x + dx, y |-> pan.y + dy ]
                  /\ UNCHANGED << vecA, vecB, cameraAngle >>
             [] OTHER ->
                  UNCHANGED << vecA, vecB, cameraAngle, pan >>
    /\ Handled("mouseMove")
    /\ UNCHANGED << view, is3D, scale, dragging, isOrbiting, buttons >>
    /\ UNCHANGED notVP

VPMouseUp ==
    /\ view = "VectorPlayground"
    /\ Input
    /\ dragging' = NoDrag
    /\ isOrbiting' = FALSE
    /\ buttons' = 0
    /\ Handled("mouseUp")
    /\ UNCHANGED << view, is3D, cameraAngle, scale, pan, vecA, vecB >>
    /\ UNCHANGED notVP

\* onMouseLeave={handleMouseUp}: the button may still be held
VPMouseLeave ==
    /\ view = "VectorPlayground"
    /\ Input
    /\ dragging' = NoDrag
    /\ isOrbiting' = FALSE
    /\ Handled("mouseLeave")
    /\ UNCHANGED << view, is3D, cameraAngle, scale, pan, vecA, vecB, buttons >>
    /\ UNCHANGED notVP

VPWheel(up) ==
    /\ view = "VectorPlayground"
    /\ Input
    /\ scale' = zoomScale(scale, up, 10, 200)
    /\ Handled("wheel")
    /\ UNCHANGED << view, is3D, cameraAngle, pan, dragging, isOrbiting,
                    vecA, vecB, buttons >>
    /\ UNCHANGED notVP

\* ColumnVector.handleChange of the field (name, axis); the z field is
\* rendered in 3D only
VPChange(name, axis, val) ==
    /\ view = "VectorPlayground"
    /\ EditInput
    /\ axis = "z" => is3D
    /\ LET vec == IF name = "A" THEN vecA ELSE vecB
           new == [ vec EXCEPT ![axis] = orZero(parseFloat(val)) ]
       IN  IF name = "A" THEN vecA' = new /\ UNCHANGED vecB
                         ELSE vecB' = new /\ UNCHANGED vecA
    /\ Handled("change")
    /\ UNCHANGED << view, is3D, cameraAngle, scale, pan, dragging, isOrbiting,
                    buttons >>
    /\ UNCHANGED notVP

VPInputScroll(name, axis, up) ==
    /\ view = "VectorPlayground"
    /\ EditInput
    /\ axis = "z" => is3D
    /\ LET delta == IF up THEN 500 ELSE -500
       IN  IF name = "A"
           THEN /\ vecA' = [ vecA EXCEPT ![axis] = toFixed1(@ + delta) ]
                /\ UNCHANGED vecB
           ELSE /\ vecB' = [ vecB EXCEPT ![axis] = toFixed1(@ + delta) ]
                /\ UNCHANGED vecA
    /\ Handled("inputScroll")
    /\ UNCHANGED << view, is3D, cameraAngle, scale, pan, dragging, isOrbiting,
                    buttons >>
    /\ UNCHANGED notVP

VPSet2D ==
    /\ view = "VectorPlayground"
    /\ Input
    /\ is3D' = FALSE
    /\ cameraAngle' = Origin
    /\ pan' = Origin
    /\ scale' = 40
    /\ Handled("set2D")
    /\ UNCHANGED << view, dragging, isOrbiting, vecA, vecB, buttons >>
    /\ UNCHANGED notVP

VPSet3D ==
    /\ view = "VectorPlayground"
    /\ Input
    /\ is3D' = TRUE
    /\ cameraAngle' = [ x |-> -30, y |-> 50 ]
    /\ Handled("set3D")
    /\ UNCHANGED << view, scale, pan, dragging, isOrbiting, vecA, vecB, buttons >>
    /\ UNCHANGED notVP

InitVP ==
    /\ view = "VectorPlayground"
    /\ NoHistory
    /\ vecA = [ x |-> 4 * Unit, y |-> Unit, z |-> 0 ]
    /\ vecB = [ x |-> Unit, y |-> 3 * Unit, z |-> 0 ]
    /\ is3D = FALSE
    /\ cameraAngle = [ x |-> -30, y |-> 50 ]
    /\ scale = 40
    /\ pan = Origin
    /\ dragging = NoDrag
    /\ isOrbiting = FALSE
    /\ buttons = 0
    /\ camera = Origin /\ position = Origin /\ cameraY = 0
    /\ NoGradientDescent /\ NoMatrixMultiplication /\ NoLineEquation
    /\ vector = Zero3 /\ isDraggingVector = FALSE
    /\ NoEigenvectors /\ NoMatrixTransformLevel /\ NoRenderQueue
    /\ NoMatrixTransform /\ NoIntegral

NextVP ==
    \/ \E dA \in HitDists, dB \in HitDists : VPMouseDown(dA, dB)
    \/ \E d \in Deltas : VPMouseMove(d[1], d[2])
    \/ VPMouseUp
    \/ VPMouseLeave
    \/ \E up \in BOOLEAN : VPWheel(up)
    \/ \E fld \in Fields, val \in Values : VPChange(fld[1], fld[2], val)
    \/ \E fld \in Fields, up \in BOOLEAN : VPInputScroll(fld[1], fld[2], up)
    \/ VPSet2D
    \/ VPSet3D

\* ===================================================== CrossProductLevel
notCross == << cameraAngle, is3D, pan, gdVars, mmVars, lineVars, vvVars,
               cameraY, buttons, eigVars, mtVars, drawVars, ivVars, matrix >>

CrossMouseDown(dA, dB) ==
    /\ view = "CrossProductLevel"
    /\ Input
    /\ dragging' = IF dA < 20 THEN "A" ELSE IF dB < 20 THEN "B" ELSE "CAMERA"
    /\ HandledDownOfTwo(IF dA < 20 THEN "A" ELSE IF dB < 20 THEN "B" ELSE "none",
                        dA < 20 /\ dB < 20)
    /\ UNCHANGED << view, camera, scale, vecA, vecB >>
    /\ UNCHANGED notCross
    \* a render with a new dragging makes a new draw
    /\ startLoops(IF dragging' # dragging THEN 1 ELSE 0)

CrossMouseMove(dx, dy) ==
    /\ view = "CrossProductLevel"
    /\ Input
    /\ LET cosY == Cos(10 * camera.y)
           sinY == Sin(10 * camera.y)
           update(prev) == [ x |-> prev.x + Rnd(dx * cosY, scale),
                             y |-> prev.y + Rnd(-dy * Unit, scale),
                             z |-> prev.z + Rnd(dx * sinY, scale) ]
       IN  CASE dragging = NoDrag ->
                  UNCHANGED << camera, vecA, vecB >>
             [] dragging = "CAMERA" ->
                  /\ camera' = [ x |-> camera.x + dy, y |-> camera.y + dx ]
                  /\ UNCHANGED << vecA, vecB >>
             [] dragging = "A" ->
                  vecA' = update(vecA) /\ UNCHANGED << camera, vecB >>
             [] dragging = "B" ->
                  vecB' = update(vecB) /\ UNCHANGED << camera, vecA >>
    /\ Handled("mouseMove")
    /\ UNCHANGED << view, scale, dragging >>
    /\ UNCHANGED notCross
    \* the updaters return a new object on every move of a drag
    /\ startLoops(IF dragging # NoDrag THEN 1 ELSE 0)

CrossMouseUp ==
    /\ view = "CrossProductLevel"
    /\ Input
    /\ dragging' = NoDrag
    /\ Handled("mouseUp")
    /\ UNCHANGED << view, camera, scale, vecA, vecB >>
    /\ UNCHANGED notCross
    /\ startLoops(IF dragging' # dragging THEN 1 ELSE 0)

\* onMouseLeave={handleMouseUp}
CrossMouseLeave ==
    /\ view = "CrossProductLevel"
    /\ Input
    /\ dragging' = NoDrag
    /\ Handled("mouseLeave")
    /\ UNCHANGED << view, camera, scale, vecA, vecB >>
    /\ UNCHANGED notCross
    /\ startLoops(IF dragging' # dragging THEN 1 ELSE 0)

CrossWheel(up) ==
    /\ view = "CrossProductLevel"
    /\ Input
    /\ scale' = zoomScale(scale, up, 10, 200)
    /\ Handled("wheel")
    /\ UNCHANGED << view, camera, dragging, vecA, vecB >>
    /\ UNCHANGED notCross
    /\ startLoops(IF scale' # scale THEN 1 ELSE 0)

CrossChange(name, axis, val) ==
    /\ view = "CrossProductLevel"
    /\ EditInput
    /\ LET vec == IF name = "A" THEN vecA ELSE vecB
           new == [ vec EXCEPT ![axis] = orZero(parseFloat(val)) ]
       IN  IF name = "A" THEN vecA' = new /\ UNCHANGED vecB
                         ELSE vecB' = new /\ UNCHANGED vecA
    /\ Handled("change")
    /\ UNCHANGED << view, camera, scale, dragging >>
    /\ UNCHANGED notCross
    \* the setter is given a new object
    /\ startLoops(1)

CrossInputScroll(name, axis, up) ==
    /\ view = "CrossProductLevel"
    /\ EditInput
    /\ LET delta == IF up THEN 500 ELSE -500
       IN  IF name = "A"
           THEN /\ vecA' = [ vecA EXCEPT ![axis] = toFixed1(@ + delta) ]
                /\ UNCHANGED vecB
           ELSE /\ vecB' = [ vecB EXCEPT ![axis] = toFixed1(@ + delta) ]
                /\ UNCHANGED vecA
    /\ Handled("inputScroll")
    /\ UNCHANGED << view, camera, scale, dragging >>
    /\ UNCHANGED notCross
    /\ startLoops(1)

\* the RESET VIEW button
CrossResetView ==
    /\ view = "CrossProductLevel"
    /\ Input
    /\ camera' = [ x |-> -50, y |-> 50 ]
    /\ scale' = 50
    /\ Handled("resetView")
    /\ UNCHANGED << view, dragging, vecA, vecB >>
    /\ UNCHANGED notCross
    /\ startLoops(1)

\* the view has no 2D mode
InitCross ==
    /\ view = "CrossProductLevel"
    /\ NoHistory
    /\ vecA = [ x |-> 2 * Unit, y |-> 0, z |-> Unit ]
    /\ vecB = [ x |-> 0, y |-> 2 * Unit, z |-> Unit ]
    /\ camera = [ x |-> -50, y |-> 50 ]
    /\ scale = 50
    /\ dragging = NoDrag
    /\ cameraAngle = Origin /\ is3D = TRUE /\ pan = Origin
    /\ position = Origin /\ cameraY = 0 /\ buttons = 0
    /\ NoGradientDescent /\ NoMatrixMultiplication /\ NoLineEquation
    /\ NoVectorVisualizer
    /\ NoEigenvectors /\ NoMatrixTransformLevel /\ NoRenderQueue
    /\ NoMatrixTransform /\ NoIntegral

NextCross ==
    \/ \E dA \in HitDists, dB \in HitDists : CrossMouseDown(dA, dB)
    \/ \E d \in Deltas : CrossMouseMove(d[1], d[2])
    \/ CrossMouseUp
    \/ CrossMouseLeave
    \/ \E up \in BOOLEAN : CrossWheel(up)
    \/ \E fld \in Fields, val \in Values : CrossChange(fld[1], fld[2], val)
    \/ \E fld \in Fields, up \in BOOLEAN : CrossInputScroll(fld[1], fld[2], up)
    \/ CrossResetView

\* ======================================================= DotProductLevel
notDot == << camera, cameraAngle, gdVars, mmVars, lineVars, vvVars, buttons,
             eigVars, mtVars, drawVars, ivVars, matrix >>

DotMouseDown(dA, dB) ==
    /\ view = "DotProductLevel"
    /\ Input
    /\ dragging' = IF dA < 20 THEN "A" ELSE IF dB < 20 THEN "B" ELSE "PAN"
    /\ HandledDownOfTwo(IF dA < 20 THEN "A" ELSE IF dB < 20 THEN "B" ELSE "none",
                        dA < 20 /\ dB < 20)
    /\ UNCHANGED << view, is3D, cameraY, scale, pan, vecA, vecB >>
    /\ UNCHANGED notDot

DotMouseMove(dx, dy) ==
    /\ view = "DotProductLevel"
    /\ Input
    /\ LET inputDx == IF is3D THEN Rnd(dx * Cos(10 * cameraY), scale)
                               ELSE Rnd(dx * Unit, scale)
           inputDy == Rnd(-dy * Unit, scale)
           update(prev) == [ prev EXCEPT !.x = @ + inputDx, !.y = @ + inputDy ]
       IN  CASE dragging = NoDrag ->
                  UNCHANGED << cameraY, pan, vecA, vecB >>
             [] dragging = "PAN" /\ is3D ->
                  /\ cameraY' = cameraY + dx
                  /\ UNCHANGED << pan, vecA, vecB >>
             [] dragging = "PAN" /\ ~is3D ->
                  /\ pan' = [ x |-> pan.x + dx, y |-> pan.y + dy ]
                  /\ UNCHANGED << cameraY, vecA, vecB >>
             [] dragging = "A" ->
                  vecA' = update(vecA) /\ UNCHANGED << cameraY, pan, vecB >>
             [] dragging = "B" ->
                  vecB' = update(vecB) /\ UNCHANGED << cameraY, pan, vecA >>
    /\ Handled("mouseMove")
    /\ UNCHANGED << view, is3D, scale, dragging >>
    /\ UNCHANGED notDot

DotMouseUp ==
    /\ view = "DotProductLevel"
    /\ Input
    /\ dragging' = NoDrag
    /\ Handled("mouseUp")
    /\ UNCHANGED << view, is3D, cameraY, scale, pan, vecA, vecB >>
    /\ UNCHANGED notDot

\* onMouseLeave={handleMouseUp}
DotMouseLeave ==
    /\ view = "DotProductLevel"
    /\ Input
    /\ dragging' = NoDrag
    /\ Handled("mouseLeave")
    /\ UNCHANGED << view, is3D, cameraY, scale, pan, vecA, vecB >>
    /\ UNCHANGED notDot

DotWheel(up) ==
    /\ view = "DotProductLevel"
    /\ Input
    /\ scale' = zoomScale(scale, up, 10, 200)
    /\ Handled("wheel")
    /\ UNCHANGED << view, is3D, cameraY, pan, dragging, vecA, vecB >>
    /\ UNCHANGED notDot

\* ColumnVector.handleChange; the z field is rendered in 3D only
DotChange(name, axis, val) ==
    /\ view = "DotProductLevel"
    /\ EditInput
    /\ axis = "z" => is3D
    /\ LET vec == IF name = "A" THEN vecA ELSE vecB
           new == [ vec EXCEPT ![axis] = orZero(parseFloat(val)) ]
       IN  IF name = "A" THEN vecA' = new /\ UNCHANGED vecB
                         ELSE vecB' = new /\ UNCHANGED vecA
    /\ Handled("change")
    /\ UNCHANGED << view, is3D, cameraY, scale, pan, dragging >>
    /\ UNCHANGED notDot

DotInputScroll(name, axis, up) ==
    /\ view = "DotProductLevel"
    /\ EditInput
    /\ axis = "z" => is3D
    /\ LET delta == IF up THEN 500 ELSE -500
       IN  IF name = "A"
           THEN /\ vecA' = [ vecA EXCEPT ![axis] = toFixed1(@ + delta) ]
                /\ UNCHANGED vecB
           ELSE /\ vecB' = [ vecB EXCEPT ![axis] = toFixed1(@ + delta) ]
                /\ UNCHANGED vecA
    /\ Handled("inputScroll")
    /\ UNCHANGED << view, is3D, cameraY, scale, pan, dragging >>
    /\ UNCHANGED notDot

\* the 2D / 3D button: setIs3D(!is3D)
DotToggle3D ==
    /\ view = "DotProductLevel"
    /\ Input
    /\ is3D' = ~is3D
    /\ Handled(IF is3D THEN "set2D" ELSE "set3D")
    /\ UNCHANGED << view, cameraY, scale, pan, dragging, vecA, vecB >>
    /\ UNCHANGED notDot

DotResetView ==
    /\ view = "DotProductLevel"
    /\ Input
    /\ scale' = 40
    /\ pan' = Origin
    /\ cameraY' = -30
    /\ Handled("resetView")
    /\ UNCHANGED << view, is3D, dragging, vecA, vecB >>
    /\ UNCHANGED notDot

InitDot ==
    /\ view = "DotProductLevel"
    /\ NoHistory
    /\ vecA = [ x |-> 3 * Unit, y |-> 2 * Unit, z |-> 0 ]
    /\ vecB = [ x |-> 4 * Unit, y |-> 0, z |-> 0 ]
    /\ is3D = FALSE
    /\ cameraY = -30
    /\ scale = 40
    /\ pan = Origin
    /\ dragging = NoDrag
    /\ camera = Origin /\ cameraAngle = Origin /\ position = Origin
    /\ buttons = 0
    /\ NoGradientDescent /\ NoMatrixMultiplication /\ NoLineEquation
    /\ NoVectorVisualizer
    /\ NoEigenvectors /\ NoMatrixTransformLevel /\ NoRenderQueue
    /\ NoMatrixTransform /\ NoIntegral

NextDot ==
    \/ \E dA \in HitDists, dB \in HitDists : DotMouseDown(dA, dB)
    \/ \E d \in Deltas : DotMouseMove(d[1], d[2])
    \/ DotMouseUp
    \/ DotMouseLeave
    \/ \E up \in BOOLEAN : DotWheel(up)
    \/ \E fld \in Fields, val \in Values : DotChange(fld[1], fld[2], val)
    \/ \E fld \in Fields, up \in BOOLEAN : DotInputScroll(fld[1], fld[2], up)
    \/ DotToggle3D
    \/ DotResetView

\* ===================================================== EigenvectorsLevel
\* t is in hundredths: the slider and the animation step by 0.01
notEig == << camera, cameraAngle, is3D, gdVars, mmVars, lineVars, vvVars,
             abVars, mtVars, drawVars, ivVars, matrix >>

PRESETS == { "SCALE_X", "SCALE_UNIFORM", "SHEAR", "DIAGONAL" }

\* the candidate eigen-line directions of a preset
eigenLines(p) ==
    CASE p = "SCALE_X" -> << [ x |-> 1, y |-> 0 ], [ x |-> 0, y |-> 1 ] >>
      [] p = "SCALE_UNIFORM" ->
            << [ x |-> 1, y |-> 0 ], [ x |-> 0, y |-> 1 ], [ x |-> 1, y |-> 1 ] >>
      [] p = "SHEAR" -> << [ x |-> 1, y |-> 0 ] >>
      [] p = "DIAGONAL" -> << [ x |-> 1, y |-> 1 ], [ x |-> -1, y |-> 1 ] >>

\* a classification that looks at the first line of the preset only
alignedAmong_FirstOnly(v, lines) ==
    lines # << >> /\ Abs(v.x * Head(lines).y - v.y * Head(lines).x) < 100

\* draw: isAligned starts false, and forEach sets it for every line whose
\* cross product with v is below 0.1 in absolute value
RECURSIVE alignedAmong(_, _)
alignedAmong(v, lines) ==
    IF lines = << >> THEN FALSE
    ELSE LET line == Head(lines)
             cross == v.x * line.y - v.y * line.x
         IN  IF Abs(cross) < 100 THEN TRUE ELSE alignedAmong(v, Tail(lines))

isAligned == alignedAmong(probeBase, eigenLines(currentPreset))

\* the positions the model sets the timeline slider to
SliderValues == { 5, 100 }

\* one frame of the animation loop, which runs while isPlaying
EigFrame ==
    /\ view = "EigenvectorsLevel"
    /\ isPlaying
    /\ IF t >= 100
       THEN isPlaying' = FALSE /\ t' = 100
       ELSE t' = t + 1 /\ UNCHANGED isPlaying
    /\ Handled("frame")
    /\ UNCHANGED << view, nInputs, currentPreset, probeBase, scale, pan,
                    dragging >>
    /\ UNCHANGED notEig

\* dist: pixels between the pointer and the tip of the transformed probe
EigMouseDown(dist) ==
    /\ view = "EigenvectorsLevel"
    /\ Input
    /\ IF dist < 20
       THEN /\ t' = IF t > 10 THEN 0 ELSE t
            /\ dragging' = "PROBE"
       ELSE /\ dragging' = "PAN"
            /\ UNCHANGED t
    /\ HandledDown(IF dist < 20 THEN "PROBE" ELSE "none")
    /\ UNCHANGED << view, currentPreset, isPlaying, probeBase, scale, pan >>
    /\ UNCHANGED notEig

EigMouseMove(dx, dy) ==
    /\ view = "EigenvectorsLevel"
    /\ Input
    /\ CASE dragging = NoDrag ->
              UNCHANGED << pan, t, probeBase >>
         [] dragging = "PAN" ->
              /\ pan' = [ x |-> pan.x + dx, y |-> pan.y + dy ]
              /\ UNCHANGED << t, probeBase >>
         [] dragging = "PROBE" ->
              /\ t' = 0
              /\ probeBase' = [ x |-> probeBase.x + Rnd(dx * Unit, scale),
                                y |-> probeBase.y - Rnd(dy * Unit, scale) ]
              /\ UNCHANGED pan
    /\ Handled("mouseMove")
    /\ UNCHANGED << view, currentPreset, isPlaying, scale, dragging >>
    /\ UNCHANGED notEig

EigMouseUp ==
    /\ view = "EigenvectorsLevel"
    /\ Input
    /\ dragging' = NoDrag
    /\ Handled("mouseUp")
    /\ UNCHANGED << view, eigVars, scale, pan >>
    /\ UNCHANGED notEig

\* onMouseLeave={handleMouseUp}
EigMouseLeave ==
    /\ view = "EigenvectorsLevel"
    /\ Input
    /\ dragging' = NoDrag
    /\ Handled("mouseLeave")
    /\ UNCHANGED << view, eigVars, scale, pan >>
    /\ UNCHANGED notEig

EigWheel(up) ==
    /\ view = "EigenvectorsLevel"
    /\ Input
    /\ scale' = zoomScale(scale, up, 10, 200)
    /\ Handled("wheel")
    /\ UNCHANGED << view, eigVars, pan, dragging >>
    /\ UNCHANGED notEig

\* the timeline slider
EigSetT(v) ==
    /\ view = "EigenvectorsLevel"
    /\ Input
    /\ t' = v
    /\ Handled("slider")
    /\ UNCHANGED << view, currentPreset, isPlaying, probeBase, scale, pan,
                    dragging >>
    /\ UNCHANGED notEig

\* the ANIMAR button
EigPlay ==
    /\ view = "EigenvectorsLevel"
    /\ Input
    /\ t' = 0
    /\ isPlaying' = TRUE
    /\ Handled("play")
    /\ UNCHANGED << view, currentPreset, probeBase, scale, pan, dragging >>
    /\ UNCHANGED notEig

EigReset ==
    /\ view = "EigenvectorsLevel"
    /\ Input
    /\ isPlaying' = FALSE
    /\ t' = 0
    /\ Handled("reset")
    /\ UNCHANGED << view, currentPreset, probeBase, scale, pan, dragging >>
    /\ UNCHANGED notEig

EigSelectPreset(p) ==
    /\ view = "EigenvectorsLevel"
    /\ Input
    /\ currentPreset' = p
    /\ t' = 0
    /\ Handled("preset")
    /\ UNCHANGED << view, isPlaying, probeBase, scale, pan, dragging >>
    /\ UNCHANGED notEig

InitEig ==
    /\ view = "EigenvectorsLevel"
    /\ NoHistory
    /\ currentPreset = "SCALE_X"
    /\ t = 0
    /\ isPlaying = FALSE
    /\ probeBase = [ x |-> Unit, y |-> 2 * Unit ]
    /\ scale = 40
    /\ pan = Origin
    /\ dragging = NoDrag
    /\ camera = Origin /\ cameraAngle = Origin /\ is3D = FALSE
    /\ position = Origin
    /\ NoGradientDescent /\ NoMatrixMultiplication /\ NoLineEquation
    /\ NoVectorVisualizer /\ NoVectors /\ NoMatrixTransformLevel
    /\ NoRenderQueue /\ NoMatrixTransform /\ NoIntegral

NextEig ==
    \/ EigFrame
    \/ \E dist \in HitDists : EigMouseDown(dist)
    \/ \E d \in Deltas : EigMouseMove(d[1], d[2])
    \/ EigMouseUp
    \/ EigMouseLeave
    \/ \E up \in BOOLEAN : EigWheel(up)
    \/ \E v \in SliderValues : EigSetT(v)
    \/ EigPlay
    \/ EigReset
    \/ \E p \in PRESETS : EigSelectPreset(p)

SpecEig == InitEig /\ [][NextEig]_vars

\* ============================================ the views of two handles
InitHandles == InitLine \/ InitVP \/ InitCross \/ InitDot

NextHandles == NextLine \/ NextVP \/ NextCross \/ NextDot

SpecHandles == InitHandles /\ [][NextHandles]_vars

\* ======================================================= MatrixTransform
\* the panel of four number fields and four preset buttons; the entries of
\* matrix are in thousandths
notMatrixTransform ==
    << camVars, cameraAngle, is3D, dragging, gdVars, mmVars, lineVars, vvVars,
       abVars, eigVars, mtVars, drawVars, ivVars >>

Keys == { "a", "b", "c", "d" }

MatrixPresets ==
    { [ a |-> Unit, b |-> 0, c |-> 0, d |-> Unit ],
      [ a |-> 0, b |-> -Unit, c |-> Unit, d |-> 0 ],
      [ a |-> Unit, b |-> Unit, c |-> 0, d |-> Unit ],
      [ a |-> 2 * Unit, b |-> 0, c |-> 0, d |-> 2 * Unit ] }

\* const num = parseFloat(val); if (!isNaN(num)) setMatrix(...)
updateMatrix(key, val) ==
    /\ view = "MatrixTransform"
    /\ EditInput
    /\ LET num == parseFloat(val)
       IN  IF ~num.nan
           THEN matrix' = [ matrix EXCEPT ![key] = num.num ]
           ELSE UNCHANGED matrix
    /\ Handled("change")
    /\ UNCHANGED view
    /\ UNCHANGED notMatrixTransform

\* setIdentity, setRotation90, setShearX, setScaling
setMatrix(m) ==
    /\ view = "MatrixTransform"
    /\ Input
    /\ matrix' = m
    /\ Handled("preset")
    /\ UNCHANGED view
    /\ UNCHANGED notMatrixTransform

\* the view holds no camera: scale stands for its VIEW_SCALE
InitMatrixTransform ==
    /\ view = "MatrixTransform"
    /\ NoHistory
    /\ matrix = [ a |-> Unit, b |-> 0, c |-> 0, d |-> Unit ]
    /\ scale = 15
    /\ pan = Origin /\ camera = Origin /\ cameraAngle = Origin
    /\ is3D = FALSE /\ dragging = NoDrag /\ position = Origin
    /\ NoGradientDescent /\ NoMatrixMultiplication /\ NoLineEquation
    /\ NoVectorVisualizer /\ NoVectors /\ NoEigenvectors
    /\ NoMatrixTransformLevel /\ NoRenderQueue /\ NoIntegral

NextMatrixTransform ==
    \/ \E key \in Keys, val \in Values : updateMatrix(key, val)
    \/ \E m \in MatrixPresets : setMatrix(m)

\* ========================================= the views with number fields
InitFields ==
    InitLine \/ InitVP \/ InitCross \/ InitDot \/ InitMatrixTransform

NextFields ==
    NextLine \/ NextVP \/ NextCross \/ NextDot \/ NextMatrixTransform

SpecFields == InitFields /\ [][NextFields]_vars

\* ======================================== the depth-sorted render queues
\* MatrixTransformLevel (3D mode) and IntegralVisualizer queue the commands
\* of a frame, sort them by depth and paint them; draw runs to completion,
\* so no handler runs between its phases.  Depths are in thousandths.
notMT == << cameraAngle, gdVars, mmVars, lineVars, vvVars, abVars, eigVars,
            ivVars, matrix >>
notIV == << cameraAngle, is3D, learningRate, isRunning, position, path,
            iteration, mmVars, lineVars, vvVars, abVars, eigVars, mtVars,
            matrix >>

Identity3D ==
    [ a |-> Unit, b |-> 0, c |-> 0, d |-> 0, e |-> Unit, f |-> 0,
      g |-> 0, h |-> 0, i |-> Unit ]

\* setPreset: the 3D targets the model selects
Presets3D ==
    { Identity3D,
      [ Identity3D EXCEPT !.a = 1500, !.e = 1500, !.i = 1500 ],
      [ a |-> 0, b |-> 0, c |-> Unit, d |-> 0, e |-> Unit, f |-> 0,
        g |-> -Unit, h |-> 0, i |-> 0 ],
      [ Identity3D EXCEPT !.b = 500 ],
      [ Identity3D EXCEPT !.i = 0 ] }

\* update3D: the identity with one entry typed over
Typed3D ==
    { [ Identity3D EXCEPT ![k] = orZero(parseFloat(val)) ] :
          k \in { "e", "i" }, val \in Values }

\* the matrices on which the animation has settled
Matrices3D == Presets3D \cup Typed3D

transform3D(p, m) ==
    [ x |-> Rnd(m.a * p.x + m.b * p.y + m.c * p.z, Unit),
      y |-> Rnd(m.d * p.x + m.e * p.y + m.f * p.z, Unit),
      z |-> Rnd(m.g * p.x + m.h * p.y + m.i * p.z, Unit) ]

\* project(p).z: the depth of p after rotateY and rotateX by the camera
depth(p) ==
    LET z1 == Rnd(-p.x * Sin(10 * camera.y) + p.z * Cos(10 * camera.y), Unit)
    IN  Rnd(p.y * Sin(10 * camera.x) + z1 * Cos(10 * camera.x), Unit)

\* the half width of the lattice of grid lines
limit == 3

\* the end points of the n-th grid line: 49 lines along x, then y, then z
gridLine(n) ==
    LET side == 2 * limit + 1
        k    == (n - 1) % (side * side)
        u    == ((k \div side) - limit) * Unit
        v    == ((k % side) - limit) * Unit
        lo   == -limit * Unit
        hi   == limit * Unit
    IN  CASE (n - 1) \div (side * side) = 0 ->
                << [ x |-> lo, y |-> u, z |-> v ], [ x |-> hi, y |-> u, z |-> v ] >>
          [] (n - 1) \div (side * side) = 1 ->
                << [ x |-> u, y |-> lo, z |-> v ], [ x |-> u, y |-> hi, z |-> v ] >>
          [] OTHER ->
                << [ x |-> u, y |-> v, z |-> lo ], [ x |-> u, y |-> v, z |-> hi ] >>

addLine(n) ==
    LET l == gridLine(n)
    IN  [ type |-> "LINE", id |-> n,
          z |-> Rnd(depth(transform3D(l[1], currentMatrix3D))
                    + depth(transform3D(l[2], currentMatrix3D)), 2) ]

basis == << [ x |-> Unit, y |-> 0, z |-> 0 ], [ x |-> 0, y |-> Unit, z |-> 0 ],
            [ x |-> 0, y |-> 0, z |-> Unit ] >>

addVector(n, v) ==
    [ type |-> "ARROW", id |-> n,
      z |-> Rnd(depth(transform3D(Zero3, currentMatrix3D))
                + depth(transform3D(v, currentMatrix3D)), 2) - 100 * Unit ]

corners ==
    << [ x |-> 0, y |-> 0, z |-> 0 ], [ x |-> Unit, y |-> 0, z |-> 0 ],
       [ x |-> Unit, y |-> Unit, z |-> 0 ], [ x |-> 0, y |-> Unit, z |-> 0 ],
       [ x |-> 0, y |-> 0, z |-> Unit ], [ x |-> Unit, y |-> 0, z |-> Unit ],
       [ x |-> Unit, y |-> Unit, z |-> Unit ], [ x |-> 0, y |-> Unit, z |-> Unit ] >>

faces == << << 1, 2, 3, 4 >>, << 5, 6, 7, 8 >>, << 1, 5, 8, 4 >>,
            << 2, 6, 7, 3 >>, << 1, 2, 6, 5 >>, << 4, 3, 7, 8 >> >>

addFace(n, fc) ==
    LET dz(c) == depth(transform3D(corners[c], currentMatrix3D))
    IN  [ type |-> "FACE", id |-> n,
          z |-> Rnd(dz(fc[1]) + dz(fc[2]) + dz(fc[3]) + dz(fc[4]), 4)
                + 50 * Unit ]

\* the render list of a 3D frame of MatrixTransformLevel, in queue order
renderItems ==
    LET lines == 3 * (2 * limit + 1) * (2 * limit + 1)
    IN  [ n \in 1..(lines + 9) |->
            IF n <= lines THEN addLine(n)
            ELSE IF n <= lines + 3 THEN addVector(n, basis[n - lines])
            ELSE addFace(n, faces[n - lines - 3]) ]

\* FUNCTIONS[i].f of IntegralVisualizer, on thousandths
\* the range of every integrand
range == 3

\* ------------------------------------------------ the loop variable of draw
\* The cell loops of IntegralVisualizer run `for (x = -range; x < range;
\* x += step)` on IEEE 754 doubles.  Every value the loop variable takes is
\* a multiple of 2^-57 below 8: the model holds its magnitude as four limbs
\* of 15 bits, lowest first, in units of 2^-57, next to its sign.
Limb == 32768

addM(a, b) ==
    LET s1 == a[1] + b[1]
        s2 == a[2] + b[2] + s1 \div Limb
        s3 == a[3] + b[3] + s2 \div Limb
        s4 == a[4] + b[4] + s3 \div Limb
    IN  << s1 % Limb, s2 % Limb, s3 % Limb, s4 >>

\* a - b for a >= b
subM(a, b) ==
    LET d1 == a[1] - b[1]
        d2 == a[2] - b[2] - (IF d1 < 0 THEN 1 ELSE 0)
        d3 == a[3] - b[3] - (IF d2 < 0 THEN 1 ELSE 0)
        d4 == a[4] - b[4] - (IF d3 < 0 THEN 1 ELSE 0)
    IN  << d1 % Limb, d2 % Limb, d3 % Limb, d4 >>

lessM(a, b) ==
    \/ a[4] < b[4]
    \/ a[4] = b[4] /\ a[3] < b[3]
    \/ a[4] = b[4] /\ a[3] = b[3] /\ a[2] < b[2]
    \/ a[4] = b[4] /\ a[3] = b[3] /\ a[2] = b[2] /\ a[1] < b[1]

\* the unit in the last place of a double of magnitude m, as a power of two
\* of the model's unit: 2^-51 for [2, 4), 2^-52 for [1, 2), ...
ulp(m) ==
    CASE m[4] >= 16384 -> 128
      [] m[4] >= 8192 -> 64
      [] m[4] >= 4096 -> 32
      [] m[4] >= 2048 -> 16
      [] m[4] >= 1024 -> 8
      [] m[4] >= 512 -> 4
      [] m[4] >= 256 -> 2
      [] OTHER -> 1

\* round to nearest, ties to even, of the magnitude m + (a fraction of a
\* unit that is not zero iff sticky)
roundM(m, sticky) ==
    LET q == ulp(m)
        r == m[1] % q
        down == << m[1] - r, m[2], m[3], m[4] >>
        up == \/ 2 * r > q
              \/ 2 * r = q /\ (sticky \/ (m[1] \div q) % 2 = 1)
    IN  IF q = 1 \/ ~up THEN down ELSE addM(down, << q, 0, 0, 0 >>)

\* the double (2 * range) / n
quotient(n) ==
    LET l4 == 2 * range * 4096
        q4 == l4 \div n
        r4 == l4 % n
        q3 == (r4 * Limb) \div n
        r3 == (r4 * Limb) % n
        q2 == (r3 * Limb) \div n
        r2 == (r3 * Limb) % n
        q1 == (r2 * Limb) \div n
        r1 == (r2 * Limb) % n
    IN  roundM(<< q1, q2, q3, q4 >>, r1 # 0)

\* the double x + s for a positive s
plus(x, s) ==
    IF ~x.neg THEN [ neg |-> FALSE, m |-> roundM(addM(x.m, s), FALSE) ]
    ELSE IF lessM(s, x.m)
         THEN [ neg |-> TRUE, m |-> roundM(subM(x.m, s), FALSE) ]
         ELSE [ neg |-> FALSE, m |-> roundM(subM(s, x.m), FALSE) ]

\* the double range (an integer below 8)
whole(k) == << 0, 0, 0, k * 4096 >>

\* the number of times the body of `for (x = -range; x < range; x += step)`
\* runs from x on, counted up to n + 2
RECURSIVE iterations(_, _, _)
iterations(x, s, left) ==
    IF left = 0 \/ ~(x.neg \/ lessM(x.m, whole(range))) THEN 0
    ELSE 1 + iterations(plus(x, s), s, left - 1)

cellsPerAxis(n) ==
    iterations([ neg |-> TRUE, m |-> whole(range) ], quotient(n), n + 2)

integrand(i, x, y) ==
    CASE i = 0 -> Unit + Rnd(x * x + y * y, 8 * Unit)
      [] i = 1 -> 2 * Unit + Rnd(3 * x + 3 * y, 10)
      [] i = 2 -> 2 * Unit + Rnd(Sin(x) * Cos(y), Unit)

\* the prisms of a frame of IntegralVisualizer with their height, centerZ
\* and volume, in queue order; a cell whose height is not positive queues nothing
prisms ==
    \* dx: the width (step) of a cell
    LET dx == (2 * range * Unit) \div resolution
        \* the times each of the two loops runs its body
        count == cellsPerAxis(resolution)
        cell(n) ==
            LET x  == -range * Unit + ((n - 1) \div count) * dx
                y  == -range * Unit + ((n - 1) % count) * dx
                ht == integrand(funcIndex, x + dx \div 2, y + dx \div 2)
                cz == Rnd(  depth([ x |-> x, y |-> 0, z |-> y ])
                          + depth([ x |-> x + dx, y |-> 0, z |-> y ])
                          + depth([ x |-> x + dx, y |-> 0, z |-> y + dx ])
                          + depth([ x |-> x, y |-> 0, z |-> y + dx ])
                          + depth([ x |-> x, y |-> ht, z |-> y ])
                          + depth([ x |-> x + dx, y |-> ht, z |-> y ])
                          + depth([ x |-> x + dx, y |-> ht, z |-> y + dx ])
                          + depth([ x |-> x, y |-> ht, z |-> y + dx ]), 8)
            IN  [ type |-> "PRISM", id |-> n, z |-> cz, height |-> ht,
                  vol |-> Rnd(Rnd(ht * dx, Unit) * dx, Unit) ]
    IN  SelectSeq([ n \in 1..(count * count) |-> cell(n) ],
                  LAMBDA c : c.height > 0)

RECURSIVE volume(_)
volume(ps) == IF ps = << >> THEN 0 ELSE Head(ps).vol + volume(Tail(ps))

\* a sort that paints the nearest command first
sort_Ascending(list) ==
    LET N == Len(list)
        rank == << >> \o [ n \in 1..N |->
                    Cardinality({ j \in 1..N :
                        \/ list[j].z < list[n].z
                        \/ list[j].z = list[n].z /\ j < n }) ]
    IN  [ r \in 1..N |-> list[CHOOSE n \in 1..N : rank[n] = r - 1] ]

\* list.sort((a, b) => b.z - a.z): stable, furthest first
sort(list) ==
    LET N == Len(list)
        rank == << >> \o [ n \in 1..N |->
                    Cardinality({ j \in 1..N :
                        \/ list[j].z > list[n].z
                        \/ list[j].z = list[n].z /\ j < n }) ]
    IN  [ r \in 1..N |-> list[CHOOSE n \in 1..N : rank[n] = r - 1] ]

\* a draw that leaves the displayed volume as it was
DrawQueue_KeepsVolume ==
    /\ drawPc = "idle"
    /\ \/ /\ view = "MatrixTransformLevel" /\ is3D
          /\ renderList' = renderItems
       \/ /\ view = "IntegralVisualizer"
          /\ renderList' = prisms
    /\ painted' = << >>
    /\ drawPc' = "queued"
    /\ UNCHANGED << view, event, nInputs, hit, overlap, pre, camVars,
                    cameraAngle, is3D, dragging, gdVars, mmVars, lineVars,
                    vvVars, abVars, eigVars, mtVars, ivVars, matrix, drawLoops >>

\* draw, first phase: the frame's own list receives every command
DrawQueue ==
    /\ drawPc = "idle"
    /\ \/ /\ view = "MatrixTransformLevel" /\ is3D
          /\ renderList' = renderItems
          /\ UNCHANGED totalVolume
       \/ /\ view = "IntegralVisualizer"
          /\ renderList' = prisms
          /\ totalVolume' = volume(prisms)
    /\ painted' = << >>
    /\ drawPc' = "queued"
    /\ UNCHANGED << view, event, nInputs, hit, overlap, pre, camVars,
                    cameraAngle, is3D, dragging, gdVars, mmVars, lineVars,
                    vvVars, abVars, eigVars, mtVars, resolution, matrix, drawLoops >>

DrawSort ==
    /\ drawPc = "queued"
    /\ renderList' = sort(renderList)
    /\ drawPc' = "sorted"
    /\ UNCHANGED << view, event, nInputs, hit, overlap, pre, camVars,
                    cameraAngle, is3D, dragging, gdVars, mmVars, lineVars,
                    vvVars, abVars, eigVars, mtVars, ivVars, matrix, drawLoops, painted >>

\* forEach(item => item.draw())
DrawPaint ==
    /\ drawPc = "sorted"
    /\ painted' = renderList
    /\ drawPc' = "painted"
    /\ UNCHANGED << view, event, nInputs, hit, overlap, pre, camVars,
                    cameraAngle, is3D, dragging, gdVars, mmVars, lineVars,
                    vvVars, abVars, eigVars, mtVars, ivVars, matrix, drawLoops,
                    renderList >>

\* forEach when the draw of the k-th command throws: the commands before it
\* are painted and the exception leaves draw
DrawPaintThrows(k) ==
    /\ drawPc = "sorted"
    /\ k \in 1..Len(renderList)
    /\ painted' = SubSeq(renderList, 1, k - 1)
    /\ drawPc' = "painted"
    /\ UNCHANGED << view, event, nInputs, hit, overlap, pre, camVars,
                    cameraAngle, is3D, dragging, gdVars, mmVars, lineVars,
                    vvVars, abVars, eigVars, mtVars, ivVars, matrix, drawLoops,
                    renderList >>

\* draw returns: its list is garbage, and the model forgets the canvas
DrawEnd ==
    /\ drawPc = "painted"
    /\ renderList' = << >>
    /\ painted' = << >>
    /\ drawPc' = "idle"
    /\ UNCHANGED << view, event, nInputs, hit, overlap, pre, camVars,
                    cameraAngle, is3D, dragging, gdVars, mmVars, lineVars,
                    vvVars, abVars, eigVars, mtVars, ivVars, matrix, drawLoops >>

\* a pointer or panel input of the two views: the model handles MaxPointer
PointerInput == Input /\ nInputs < MaxPointer /\ drawPc = "idle"

MTMouseDown ==
    /\ view = "MatrixTransformLevel"
    /\ PointerInput
    /\ dragging' = IF is3D THEN "ORBIT" ELSE "PAN"
    /\ HandledDown("none")
    /\ UNCHANGED << view, camVars, is3D, mtVars, drawVars >>
    /\ UNCHANGED notMT

MTMouseMove(dx, dy) ==
    /\ view = "MatrixTransformLevel"
    /\ PointerInput
    /\ CASE dragging = NoDrag -> UNCHANGED << pan, camera >>
         [] dragging = "PAN" ->
              /\ pan' = [ x |-> pan.x + dx, y |-> pan.y + dy ]
              /\ UNCHANGED camera
         [] dragging = "ORBIT" ->
              /\ camera' = [ x |-> camera.x + dy, y |-> camera.y + dx ]
              /\ UNCHANGED pan
    /\ Handled("mouseMove")
    /\ UNCHANGED << view, scale, is3D, dragging, mtVars, drawVars >>
    /\ UNCHANGED notMT

MTMouseUp ==
    /\ view = "MatrixTransformLevel"
    /\ PointerInput
    /\ dragging' = NoDrag
    /\ Handled("mouseUp")
    /\ UNCHANGED << view, camVars, is3D, mtVars, drawVars >>
    /\ UNCHANGED notMT

\* onMouseLeave={handleMouseUp}
MTMouseLeave ==
    /\ view = "MatrixTransformLevel"
    /\ PointerInput
    /\ dragging' = NoDrag
    /\ Handled("mouseLeave")
    /\ UNCHANGED << view, camVars, is3D, mtVars, drawVars >>
    /\ UNCHANGED notMT

MTWheel(up) ==
    /\ view = "MatrixTransformLevel"
    /\ PointerInput
    /\ scale' = zoomScale(scale, up, 5, 200)
    /\ Handled("wheel")
    /\ UNCHANGED << view, camera, pan, is3D, dragging, mtVars, drawVars >>
    /\ UNCHANGED notMT

\* the entries of the two matrices
Keys2D == << "a", "b", "c", "d" >>
Keys3D == << "a", "b", "c", "d", "e", "f", "g", "h", "i" >>

Identity2D == [ a |-> Unit, b |-> 0, c |-> 0, d |-> Unit ]

\* start + (end - start) * 0.1: a float lerp moves towards its end whenever
\* the two differ, so the model moves by a thousandth at least
lerp(start, end) ==
    LET d == end - start
    IN  IF d = 0 THEN start
        ELSE IF d > 0 THEN start + Max(1, Rnd(d, 10))
                      ELSE start - Max(1, Rnd(-d, 10))

\* Math.abs(next.a - target.a) + ... over the entries ks
RECURSIVE diff(_, _, _)
diff(next, target, ks) ==
    IF ks = << >> THEN 0
    ELSE Abs(next[Head(ks)] - target[Head(ks)]) + diff(next, target, Tail(ks))

\* the updater of one call of animate(): the matrix it returns, and whether
\* it calls setAnimating(false) (diff < 0.005)
animated1(prev, target, ks) ==
    LET next == [ k \in DOMAIN prev |-> lerp(prev[k], target[k]) ]
        done == diff(next, target, ks) < 5
    IN  [ settled |-> done, m |-> IF done THEN target ELSE next ]

\* one call of animate() in mode mode3D towards the targets t2, t3: it moves
\* the current matrix of that mode only
animate(mode3D, t2, t3) ==
    IF mode3D
    THEN LET r == animated1(currentMatrix3D, t3, Keys3D)
         IN  /\ currentMatrix3D' = r.m
             /\ animating' = ~r.settled
             /\ UNCHANGED currentMatrix2D
    ELSE LET r == animated1(currentMatrix2D, t2, Keys2D)
         IN  /\ currentMatrix2D' = r.m
             /\ animating' = ~r.settled
             /\ UNCHANGED currentMatrix3D

\* the animation effect runs again when animating, a target or is3D changes,
\* and calls animate() at once while animating
MTSet2D ==
    /\ view = "MatrixTransformLevel"
    /\ PointerInput
    /\ is3D' = FALSE
    /\ scale' = 30
    /\ pan' = Origin
    /\ IF animating /\ is3D
       THEN /\ animate(FALSE, targetMatrix2D, targetMatrix3D)
            /\ UNCHANGED << targetMatrix2D, targetMatrix3D >>
       ELSE UNCHANGED mtVars
    /\ Handled("set2D")
    /\ UNCHANGED << view, camera, dragging, drawVars >>
    /\ UNCHANGED notMT

MTSet3D ==
    /\ view = "MatrixTransformLevel"
    /\ PointerInput
    /\ is3D' = TRUE
    /\ scale' = 60
    /\ pan' = Origin
    /\ IF animating /\ ~is3D
       THEN /\ animate(TRUE, targetMatrix2D, targetMatrix3D)
            /\ UNCHANGED << targetMatrix2D, targetMatrix3D >>
       ELSE UNCHANGED mtVars
    /\ Handled("set3D")
    /\ UNCHANGED << view, camera, dragging, drawVars >>
    /\ UNCHANGED notMT

\* the view in 3D mode, its animation settled on a matrix of Matrices3D
InitMT ==
    /\ view = "MatrixTransformLevel"
    /\ NoHistory
    /\ is3D = TRUE
    /\ currentMatrix3D \in Matrices3D
    /\ targetMatrix3D = currentMatrix3D
    /\ animating = FALSE
    /\ targetMatrix2D = Identity2D /\ currentMatrix2D = Identity2D
    /\ scale = 60
    /\ pan = Origin
    /\ camera = [ x |-> -40, y |-> 60 ]
    /\ dragging = NoDrag
    /\ cameraAngle = Origin /\ position = Origin
    /\ NoGradientDescent /\ NoMatrixMultiplication /\ NoLineEquation
    /\ NoVectorVisualizer /\ NoVectors /\ NoEigenvectors
    /\ NoRenderQueue /\ NoMatrixTransform /\ NoIntegral

NextMT ==
    \/ MTMouseDown
    \/ \E d \in Deltas : MTMouseMove(d[1], d[2])
    \/ MTMouseUp
    \/ MTMouseLeave
    \/ \E up \in BOOLEAN : MTWheel(up)
    \/ MTSet2D
    \/ MTSet3D

\* the resolutions the model sets the slider to (min 2, max 50)
Resolutions == { 2, 3, 9 }

IVMouseDown ==
    /\ view = "IntegralVisualizer"
    /\ PointerInput
    /\ dragging' = "ORBIT"
    /\ HandledDown("none")
    /\ UNCHANGED << view, camVars, funcIndex, ivVars, drawVars >>
    /\ UNCHANGED notIV

IVMouseMove(dx, dy) ==
    /\ view = "IntegralVisualizer"
    /\ PointerInput
    /\ IF dragging = NoDrag THEN UNCHANGED camera
       ELSE camera' = [ x |-> camera.x + dy, y |-> camera.y + dx ]
    /\ Handled("mouseMove")
    /\ UNCHANGED << view, scale, pan, dragging, funcIndex, ivVars, drawVars >>
    /\ UNCHANGED notIV

IVMouseUp ==
    /\ view = "IntegralVisualizer"
    /\ PointerInput
    /\ dragging' = NoDrag
    /\ Handled("mouseUp")
    /\ UNCHANGED << view, camVars, funcIndex, ivVars, drawVars >>
    /\ UNCHANGED notIV

\* onMouseLeave={handleMouseUp}
IVMouseLeave ==
    /\ view = "IntegralVisualizer"
    /\ PointerInput
    /\ dragging' = NoDrag
    /\ Handled("mouseLeave")
    /\ UNCHANGED << view, camVars, funcIndex, ivVars, drawVars >>
    /\ UNCHANGED notIV

IVWheel(up) ==
    /\ view = "IntegralVisualizer"
    /\ PointerInput
    /\ scale' = zoomScale(scale, up, 20, 150)
    /\ Handled("wheel")
    /\ UNCHANGED << view, camera, pan, dragging, funcIndex, ivVars, drawVars >>
    /\ UNCHANGED notIV

IVSetFuncIndex(n) ==
    /\ view = "IntegralVisualizer"
    /\ PointerInput
    /\ funcIndex' = n
    /\ Handled("select")
    /\ UNCHANGED << view, camVars, dragging, ivVars, drawVars >>
    /\ UNCHANGED notIV

IVSetResolution(n) ==
    /\ view = "IntegralVisualizer"
    /\ PointerInput
    /\ resolution' = n
    /\ Handled("slider")
    /\ UNCHANGED << view, camVars, dragging, funcIndex, totalVolume, drawVars >>
    /\ UNCHANGED notIV

InitIV ==
    /\ view = "IntegralVisualizer"
    /\ NoHistory
    /\ resolution = 6
    /\ funcIndex = 0
    /\ totalVolume = 0
    /\ camera = [ x |-> -50, y |-> 60 ]
    /\ scale = 45
    /\ pan = Origin
    /\ dragging = NoDrag
    /\ cameraAngle = Origin /\ is3D = TRUE /\ position = Origin
    /\ learningRate = 10 /\ isRunning = FALSE /\ path = << >> /\ iteration = 0
    /\ NoMatrixMultiplication /\ NoLineEquation
    /\ NoVectorVisualizer /\ NoVectors /\ NoEigenvectors
    /\ NoMatrixTransformLevel /\ NoRenderQueue /\ NoMatrixTransform

NextIV ==
    \/ IVMouseDown
    \/ \E d \in Deltas : IVMouseMove(d[1], d[2])
    \/ IVMouseUp
    \/ IVMouseLeave
    \/ \E up \in BOOLEAN : IVWheel(up)
    \/ \E n \in 0..2 : IVSetFuncIndex(n)
    \/ \E n \in Resolutions : IVSetResolution(n)

InitDraw == InitMT \/ InitIV

NextDraw == NextMT \/ NextIV \/ DrawQueue \/ DrawSort \/ DrawPaint \/ DrawEnd

SpecDraw == InitDraw /\ [][NextDraw]_vars

\* the same views when the paint of a command can throw
NextDrawFault ==
    NextDraw \/ \E k \in ThrowAt : DrawPaintThrows(k)

SpecDrawFault == InitDraw /\ [][NextDrawFault]_vars

\* ==================================================== the derived readouts
\* The quantities a view derives from its vectors on every render.  Squares
\* and products are taken on hundredths, so that they fit the integers of
\* the model checker; quotients are in thousandths.
Infinity == 2 * 10 ^ 9

finite(x) == x # NaN /\ x # Infinity /\ x # -Infinity

\* x || d without the fallback
orElse_Unguarded(x, d) == x

\* x || d: d when x is 0 or NaN
orElse(x, d) == IF x = 0 \/ x = NaN THEN d ELSE x

\* the first k decimal places of n / d, as << quotient, remainder >>
\* (n >= 0, d > 0)
RECURSIVE longDivision(_, _, _)
longDivision(n, d, k) ==
    IF k = 0 THEN << n \div d, n % d >>
    ELSE LET p == longDivision(n, d, k - 1)
         IN  << 10 * p[1] + (10 * p[2]) \div d, (10 * p[2]) % d >>

\* n / d in thousandths, n and d in the same unit: 0 / 0 is NaN and
\* x / 0 an infinity, as in IEEE 754
divide(n, d) ==
    IF n = NaN \/ d = NaN THEN NaN
    ELSE IF d = 0 THEN (IF n = 0 THEN NaN ELSE IF n > 0 THEN Infinity
                                                ELSE -Infinity)
    ELSE LET q == longDivision(Abs(n), Abs(d), 3)[1]
         IN  IF (n < 0) = (d < 0) THEN q ELSE -q

\* the integer square root of n, between lo and hi
RECURSIVE sqrtBetween(_, _, _)
sqrtBetween(n, lo, hi) ==
    IF lo >= hi THEN lo
    ELSE LET mid == (lo + hi + 1) \div 2
         IN  IF mid * mid <= n THEN sqrtBetween(n, mid, hi)
                               ELSE sqrtBetween(n, lo, mid - 1)

sqrt(n) == sqrtBetween(n, 0, 46340)

\* v.x * w.x + v.y * w.y + v.z * w.z, in squares of hundredths
dot(v, w) ==
    Rnd(v.x, 10) * Rnd(w.x, 10) + Rnd(v.y, 10) * Rnd(w.y, 10)
        + Rnd(v.z, 10) * Rnd(w.z, 10)

\* Math.sqrt(v.x**2 + v.y**2 + v.z**2) in hundredths: 0 for the zero vector
\* only, a float square being 0 for 0 only
mag(v) == IF v = Zero3 THEN 0 ELSE Max(1, sqrt(dot(v, v)))

\* the number 1 in squares of hundredths
One == 100 * 100

\* DotProductLevel: dotProduct / ((magA * magB) || 1), clamped to [-1, 1],
\* the argument of Math.acos; Math.min and Math.max hand a NaN on
clampedCosine ==
    LET c == divide(dot(vecA, vecB), orElse(mag(vecA) * mag(vecB), One))
    IN  IF c = NaN THEN NaN ELSE Min(Unit, Max(-Unit, c))

\* dotProduct / (magB**2 || 1)
scalarProj == divide(dot(vecA, vecB), orElse(mag(vecB) * mag(vecB), One))

scaled(x, k) == IF finite(k) THEN Rnd(x * Rnd(k, 10), 100) ELSE NaN

vecProj ==
    [ x |-> scaled(vecB.x, scalarProj), y |-> scaled(vecB.y, scalarProj),
      z |-> scaled(vecB.z, scalarProj) ]

\* VectorVisualizer: magnitude in thousandths, z counted in 3D only
magnitude ==
    10 * mag([ vector EXCEPT !.z = IF is3D THEN @ ELSE 0 ])

\* magnitude || 0.001
safeMag == orElse(magnitude, 1)

\* the argument of Math.acos in polarPhi; 2D shows 90 degrees, cosine 0
polarPhiCosine == IF is3D THEN divide(vector.z, safeMag) ELSE 0

InitReadouts == InitDot \/ InitVV

NextReadouts == NextDot \/ NextVV

SpecReadouts == InitReadouts /\ [][NextReadouts]_vars

\* ======================================================== the projections
\* Every view file declares the same two rotations.  Angles are in
\* hundredths of a radian, points in thousandths, screen points in pixels
\* from the centre of the viewport (w/2, h/2).
rotateX(p, angle) ==
    LET c == Cos(10 * angle)
        s == Sin(10 * angle)
    IN  [ x |-> p.x,
          y |-> Rnd(p.y * c - p.z * s, Unit),
          z |-> Rnd(p.y * s + p.z * c, Unit) ]

rotateY(p, angle) ==
    LET c == Cos(10 * angle)
        s == Sin(10 * angle)
    IN  [ x |-> Rnd(p.x * c + p.z * s, Unit),
          y |-> p.y,
          z |-> Rnd(-p.x * s + p.z * c, Unit) ]

\* a projection that applies the pitch before the yaw
project_PitchFirst(p) ==
    LET r == IF view \in { "VectorPlayground", "LineEquationLevel",
                           "VectorVisualizer" }
             THEN rotateY(rotateX(p, cameraAngle.x), cameraAngle.y)
             ELSE IF view = "DotProductLevel" THEN rotateY(p, cameraY)
             ELSE rotateY(rotateX(p, camera.x), camera.y)
    IN  [ x |-> pan.x + Rnd(r.x * scale, Unit),
          y |-> pan.y - Rnd(r.y * scale, Unit),
          z |-> r.z ]

\* project of the mounted view
project(p) ==
    CASE view \in { "VectorPlayground", "LineEquationLevel",
                    "VectorVisualizer" } ->
            LET r == IF is3D
                     THEN rotateX(rotateY(p, cameraAngle.y), cameraAngle.x)
                     ELSE [ x |-> p.x, y |-> p.y, z |-> 0 ]
            IN  [ x |-> pan.x + Rnd(r.x * scale, Unit),
                  y |-> pan.y - Rnd(r.y * scale, Unit),
                  z |-> r.z ]
      [] view = "DotProductLevel" ->
            \* a yaw only, and no depth
            LET r == IF is3D THEN rotateY(p, cameraY) ELSE p
            IN  [ x |-> pan.x + Rnd(r.x * scale, Unit),
                  y |-> pan.y - Rnd(r.y * scale, Unit) ]
      [] view = "CrossProductLevel" ->
            \* no pan
            LET r == rotateX(rotateY(p, camera.y), camera.x)
            IN  [ x |-> Rnd(r.x * scale, Unit),
                  y |-> -Rnd(r.y * scale, Unit),
                  z |-> r.z ]
      [] OTHER ->
            \* GradientDescent, CurlLevel, MatrixTransformLevel (3D),
            \* IntegralVisualizer
            LET r == rotateX(rotateY(p, camera.y), camera.x)
            IN  [ x |-> pan.x + Rnd(r.x * scale, Unit),
                  y |-> pan.y - Rnd(r.y * scale, Unit),
                  z |-> r.z ]

\* ================================================== every lesson view
\* the navigation shell mounts one lesson view
InitViews ==
    \/ InitGD \/ InitMM \/ InitLine \/ InitCurl \/ InitVV
    \/ InitVP \/ InitCross \/ InitDot \/ InitEig

NextViews ==
    \/ NextGD \/ NextMM \/ NextLine \/ NextCurl \/ NextVV
    \/ NextVP \/ NextCross \/ NextDot \/ NextEig

SpecViews == InitViews /\ [][NextViews]_vars

\* ================================================================ claims
\* what a pointer gesture can move in any view
handles == << position, pointP, dirV, vector >>

\* C1: a tick of the running stepper computes the candidate
\* (x - a * df/dx, y - a * df/dy); when its displacement is below 0.001 or
\* above 10 the tick only sets running to false; otherwise the position
\* becomes the candidate, the point (x, f(x,y), y) is appended to the
\* history, the iteration count grows by one and running stays true.
C1_TickStepsOrStops ==
    [][ event' = "tick" =>
          LET x  == position.x
              y  == position.y
              cx == x - Rnd(learningRate * df_dx(funcIndex, x, y), 100)
              cy == y - Rnd(learningRate * df_dy(funcIndex, x, y), 100)
              d2 == (cx - x) * (cx - x) + (cy - y) * (cy - y)
          IN  /\ isRunning
              /\ UNCHANGED << funcIndex, learningRate >>
              /\ IF d2 < 1 \/ d2 > 10000 * 10000
                 THEN /\ ~isRunning'
                      /\ UNCHANGED << position, path, iteration >>
                 ELSE /\ position' = [ x |-> cx, y |-> cy ]
                      /\ path' = path \o << [ x |-> x,
                                               y |-> f(funcIndex, x, y),
                                               z |-> y ] >>
                      /\ iteration' = iteration + 1
                      /\ isRunning' ]_vars

\* a tick has stopped the stepper after accepted steps
C1_Witness ==
    event = "tick" /\ ~isRunning /\ iteration > 0 /\ Len(path) = iteration

\* C2: a pointer-down on the ball while the stepper runs pauses it and clears
\* the trail; while it is paused no tick arrives, and only the start button
\* starts it again.
C2_BallPausesStepper ==
    [][ /\ (event' = "mouseDown" /\ hit' = "BALL" /\ isRunning) =>
               (~isRunning' /\ path' = << >> /\ iteration' = 0)
        /\ ~isRunning => event' # "tick"
        /\ (~isRunning /\ isRunning') => event' = "toggleRunning" ]_vars

\* the ball was grabbed while the stepper ran and had a trail
C2_Witness ==
    /\ event = "mouseDown" /\ hit = "BALL"
    /\ pre.running /\ pre.trail
    /\ ~isRunning /\ path = << >>

\* C3: while the drag target is the ball, the stepper is not running.
C3_BallDragExcludesStepper ==
    (view = "GradientDescent" /\ dragging = "BALL") => ~isRunning

\* C4: after the function is switched the stepper is paused at the new
\* function's start point with an empty history and iteration 0.
C4_SwitchResets ==
    event = "selectFunction" =>
        /\ ~isRunning
        /\ position = FUNCTIONS[funcIndex].start
        /\ path = << >>
        /\ iteration = 0

\* the function was switched away from a state that had a trail
C4_Witness ==
    event = "selectFunction" /\ pre.trail /\ funcIndex = 2

\* C5: reset yields running = false, the active function's start point, an
\* empty history and iteration 0 from any state, and a reset that follows a
\* reset changes nothing.
C5_ResetIdempotent ==
    [][ (view = "GradientDescent" /\ event' = "reset") =>
          /\ ~isRunning'
          /\ position' = FUNCTIONS[funcIndex].start
          /\ path' = << >>
          /\ iteration' = 0
          /\ UNCHANGED << funcIndex, learningRate, camVars, dragging >>
          /\ event = "reset" => UNCHANGED << gdVars, camVars, dragging >> ]_vars

\* reset was pressed while the stepper ran and had a trail
C5_Witness ==
    /\ view = "GradientDescent" /\ event = "reset"
    /\ pre.running /\ pre.trail
    /\ path = << >>

\* C6: the bowl, started from (3,3) with learning rate 0.1 and left running,
\* halts: a tick finds the displacement below 0.001 and sets running to
\* false, and the position does not change while the stepper is stopped.
C6_BowlRunHalts ==
    /\ (isRunning /\ funcIndex = 0 /\ learningRate = 10
            /\ position = FUNCTIONS[0].start) ~> ~isRunning
    /\ [][ /\ (isRunning /\ ~isRunning' /\ learningRate = 10) =>
                  /\ event' = "tick"
                  /\ Abs(df_dx(0, position.x, position.y)) < 10
                  /\ Abs(df_dy(0, position.x, position.y)) < 10
           /\ ~isRunning => position' = position ]_vars

\* the run at learning rate 0.1 was stopped by a tick
C6_Witness ==
    /\ event = "tick" /\ ~isRunning /\ learningRate = 10 /\ funcIndex = 0
    /\ iteration > 0

\* C7: on the bowl with learning rate 0.1 every accepted step strictly
\* decreases f.
C7_BowlStepDecreases ==
    [][ (event' = "tick" /\ iteration' = iteration + 1 /\ funcIndex = 0
            /\ learningRate = 10) =>
          f(0, position'.x, position'.y) < f(0, position.x, position.y) ]_vars

\* the run from (3,3) at learning rate 0.1 has accepted a hundred steps
C7_Witness ==
    /\ event = "tick" /\ funcIndex = 0 /\ learningRate = 10
    /\ iteration >= 100 /\ path[1].x = 3 * Unit /\ path[1].z = 3 * Unit

\* the image of point v under the steps of queue q, first queued first
RECURSIVE ApplyQueue(_, _)
ApplyQueue(q, v) ==
    IF q = << >> THEN v
    ELSE ApplyQueue(Tail(q), transform(v, Head(q).matrix))

\* the matrix whose columns are the images of the basis vectors under q
QueueMatrix(q) ==
    LET i == ApplyQueue(q, [ x |-> MScale, y |-> 0 ])
        j == ApplyQueue(q, [ x |-> 0, y |-> MScale ])
    IN  [ a |-> i.x, b |-> j.x, c |-> i.y, d |-> j.y ]

\* the step types whose matrices do not commute with one another
NonCommuting == { "ROTATE", "SHEAR", "REFLECT" }

\* C8: a run animates the queued steps in queue order, each once, and ends
\* with isAnimating = false and the displayed matrix Mk * ... * M1; for two
\* non-commuting steps that matrix differs from the one of the reversed queue.
C8_RunComposesInQueueOrder ==
    [][ /\ isAnimating' =>
              /\ stepIndex' = Len(animated')
              /\ animated' = [ i \in 1..Len(animated') |-> i - 1 ]
        /\ (isAnimating /\ ~isAnimating') =>
              /\ queue' = queue
              /\ animated' = [ i \in 1..Len(queue) |-> i - 1 ]
              /\ currentMatrix' = QueueMatrix(queue)
              /\ (/\ Len(queue) = 2
                  /\ queue[1].name # queue[2].name
                  /\ { queue[1].name, queue[2].name } \subseteq NonCommuting)
                    => currentMatrix' # QueueMatrix(<< queue[2], queue[1] >>) ]_vars

\* a run of a rotation followed by a shear has ended
C8_Witness ==
    /\ event = "frame" /\ ~isAnimating
    /\ Len(queue) = 2 /\ queue[1].name = "ROTATE" /\ queue[2].name = "SHEAR"
    /\ animated = << 0, 1 >>

\* C9: in every view a pointer-up or pointer-leave ends the drag, and a
\* pointer move that arrives while no drag is active changes neither the
\* camera nor a handle.
C9_ReleaseEndsDrag ==
    [][ /\ event' \in { "mouseUp", "mouseLeave" } => Target' = NoDrag
        /\ (Target = NoDrag /\ event' = "mouseMove") =>
               UNCHANGED << camera, cameraAngle, pan, handles >> ]_vars

\* C10: in every view a pointer-down that hits no handle starts an orbit
\* drag in 3D mode and a pan drag in 2D mode, and the moves of that drag
\* change the camera angles, respectively the pan offset, and nothing else.
C10_MissOrbitsOrPans ==
    [][ /\ (event' = "mouseDown" /\ hit' = "none") =>
               Target' = (IF is3D THEN "ORBIT" ELSE "PAN")
        /\ (event' = "mouseMove" /\ Target = "ORBIT") =>
               UNCHANGED << pan, handles >>
        /\ (event' = "mouseMove" /\ Target = "PAN") =>
               UNCHANGED << camera, cameraAngle, handles >> ]_vars

\* C11: a pointer-down within the hit radius of both handles of a view makes
\* the handle that is tested first the drag target: A in VectorPlayground,
\* CrossProductLevel and DotProductLevel, P in LineEquationLevel.
C11_FirstHandleWins ==
    [][ (event' = "mouseDown" /\ overlap') =>
            Target' = (IF view = "LineEquationLevel" THEN "P" ELSE "A") ]_vars

C11_Witness ==
    /\ view = "VectorPlayground" /\ event = "mouseDown" /\ overlap
    /\ Target = "A"

\* the camera angles of the views
cameras == << camera, cameraAngle, cameraY >>

\* what a view holds besides its camera, its zoom, its pan, its drag state
\* and its handles
lessonState ==
    << view, is3D, funcIndex, learningRate, isRunning, path, iteration, mmVars,
       currentPreset, t, isPlaying, mtVars, matrix >>

\* C12: a pointer move that arrives while a drag is active keeps the drag
\* target and changes only what the target is bound to: an orbit only the
\* camera angles, a pan only the pan offset, a handle drag only that handle;
\* the zoom scale, the other handles and the rest of the lesson state stay.
C12_MoveMutatesOnlyItsTarget ==
    [][ (event' = "mouseMove" /\ Target # NoDrag) =>
          /\ Target' = Target
          /\ UNCHANGED << scale, lessonState >>
          /\ Target # "ORBIT" => UNCHANGED cameras
          /\ Target # "PAN" => UNCHANGED pan
          /\ Target \notin { "BALL", "PROBE" } => UNCHANGED position
          /\ ~(Target = "PROBE" /\ view = "EigenvectorsLevel") =>
                 UNCHANGED probeBase
          /\ Target # "P" => UNCHANGED pointP
          /\ Target # "V" => UNCHANGED dirV
          /\ Target # "VECTOR" => UNCHANGED vector
          /\ Target # "A" => UNCHANGED vecA
          /\ Target # "B" => UNCHANGED vecB ]_vars

\* C13: in a 3D view the camera pitch stays within [-pi/2, pi/2], whatever
\* orbit moves the view has handled.
C13_PitchBounded ==
    is3D => /\ -HalfPi <= camera.x /\ camera.x <= HalfPi
            /\ -HalfPi <= cameraAngle.x /\ cameraAngle.x <= HalfPi

\* the [min, max] ranges the wheel handlers clamp the zoom scale into
zoomRanges == { << 20, 150 >>, << 10, 200 >>, << 5, 500 >> }

\* C14: in every lesson view a wheel event multiplies the zoom scale by 1.1
\* or by 0.9 and clamps it into the view's [min, max], whether or not a drag
\* is active, and leaves the drag target as it was.
C14_WheelZoomsClamped ==
    [][ event' = "wheel" =>
          /\ \E up \in BOOLEAN, r \in zoomRanges :
                 scale' = zoomScale(scale, up, r[1], r[2])
          /\ Target' = Target ]_vars

\* project: the screen x of the world point p, in pixels from the centre of
\* the canvas, under camera yaw a (rotateY, then the zoom and the pan)
projectX(p, a) ==
    pan.x + Rnd(Rnd(p.x * Cos(10 * a) + p.z * Sin(10 * a), Unit) * scale, Unit)

\* the world point of the handle that is dragged
draggedPoint ==
    CASE Target = "BALL" -> [ x |-> position.x, z |-> position.y ]
      [] Target = "A" -> vecA
      [] Target = "B" -> vecB
      [] Target = "P" -> pointP
      [] Target = "V" -> dirV
      [] OTHER -> Zero3

\* the yaw of the mounted view's camera
yaw ==
    CASE view \in { "GradientDescent", "CrossProductLevel" } -> camera.y
      [] view = "DotProductLevel" -> cameraY
      [] OTHER -> cameraAngle.y

\* C15: while a handle is dragged in 3D, a pointer move (dx, 0) that is not
\* clamped moves the handle so that its projection shifts by dx on the
\* screen (to the pixel, up to the rounding of the projection), for every
\* yaw.
C15_HandleFollowsPointer ==
    [][ \A d \in Deltas :
          ( /\ d[2] = 0 /\ is3D
            /\ Target \in { "BALL", "A", "B", "P", "V" }
            /\ \/ GDMouseMove(d[1], d[2]) \/ VPMouseMove(d[1], d[2])
               \/ DotMouseMove(d[1], d[2]) \/ CrossMouseMove(d[1], d[2])
               \/ LineMouseMove(d[1], d[2])
            /\ Abs(position'.x) < 4 * Unit /\ Abs(position'.y) < 4 * Unit )
          => Abs(projectX(draggedPoint, yaw)' - projectX(draggedPoint, yaw)
                   - d[1]) <= 1 ]_vars

\* C16: in the eigenvector view a pointer-down on the probe cancels a playing
\* animation: isPlaying becomes false, and no animation frame advances t
\* while the probe is dragged.
C16_ProbeDragCancelsAnimation ==
    [][ /\ (event' = "mouseDown" /\ hit' = "PROBE") => ~isPlaying'
        /\ (dragging = "PROBE" /\ event' = "frame") => t' = t ]_vars

\* C17: when the paint of one render command throws, only that command is
\* missing from the frame: every other command of the sorted list is
\* painted, in the order of the list.
C17_ThrowingPaintIsolated ==
    [][ (drawPc = "sorted" /\ drawPc' = "painted") =>
          \/ painted' = renderList
          \/ \E k \in 1..Len(renderList) :
                painted' = [ r \in 1..(Len(renderList) - 1) |->
                               IF r < k THEN renderList[r]
                                        ELSE renderList[r + 1] ] ]_vars

\* C18: within a frame the painting starts only when every command of the
\* frame is queued and sorted; every command of the frame is painted
\* exactly once, in an order in which the depth key never increases, and
\* nothing else (no command of an earlier frame) is painted.
C18_FramePaintsSortedQueue ==
    [][ (painted' # painted /\ painted' # << >>) =>
          LET queued == << >> \o (IF view = "MatrixTransformLevel"
                                   THEN renderItems ELSE prisms)
              N == Len(queued)
          IN  /\ drawPc = "sorted"
              /\ Len(painted') = N
              /\ \A n \in 1..N :
                     Cardinality({ r \in 1..N : painted'[r] = queued[n] }) = 1
              /\ \A r \in 1..(N - 1) : painted'[r].z >= painted'[r + 1].z ]_vars

C18_Witness ==
    /\ view = "MatrixTransformLevel" /\ drawPc = "painted"
    /\ Len(painted) = 156
    /\ painted[1].id # 1
    /\ painted[1].z > painted[156].z

\* C19: in the 3D matrix view every basis-vector arrow is painted after
\* every grid line, whatever the camera orientation and the matrix.
C19_ArrowsAfterGridLines ==
    \A r, q \in 1..Len(painted) :
        (painted[r].type = "ARROW" /\ painted[q].type = "LINE") => q < r

\* C20: a number field that receives unparseable text (the empty string,
\* "-") leaves the value it is bound to as it was: the change mutates
\* neither the vectors nor the matrix.
C20_UnparsedTextKeepsValue ==
    [][ \A val \in Values : \A fld \in Fields : \A key \in Keys :
          ( /\ parseFloat(val).nan
            /\ \/ VPChange(fld[1], fld[2], val)
               \/ CrossChange(fld[1], fld[2], val)
               \/ DotChange(fld[1], fld[2], val)
               \/ updateMatrix(key, val) )
          => UNCHANGED << vecA, vecB, matrix >> ]_vars

\* the number values a view displays
displayed ==
    { vecA.x, vecA.y, vecA.z, vecB.x, vecB.y, vecB.z,
      pointP.x, pointP.y, pointP.z, dirV.x, dirV.y, dirV.z,
      vector.x, vector.y, vector.z, t, learningRate }
    \cup { matrix[k] : k \in DOMAIN matrix }
    \cup { targetMatrix3D[k] : k \in DOMAIN targetMatrix3D }

\* C21: after any sequence of pointer, wheel and number-field inputs,
\* unparseable and empty text included, no displayed value (vector
\* component, matrix entry, line parameter t, learning rate) is NaN.
C21_NoNaNDisplayed == NaN \notin displayed

\* C22: the derived quantities that divide by a magnitude take a fallback
\* when it is zero.  In the dot-product view the angle (the arccosine of a
\* finite clamped cosine) and the scalar projection are finite, and with A or
\* B the zero vector the projection of A onto B is the zero vector; in the
\* vector view the polar angle is the arccosine of a finite number, 0 for
\* the zero vector.
C22_ZeroMagnitudeFallbacks ==
    /\ view = "DotProductLevel" =>
         /\ finite(clampedCosine)
         /\ finite(scalarProj)
         /\ (vecA = Zero3 \/ vecB = Zero3) =>
                /\ clampedCosine = 0
                /\ scalarProj = 0
                /\ vecProj = Zero3
    /\ view = "VectorVisualizer" =>
         /\ finite(polarPhiCosine)
         /\ vector = Zero3 => polarPhiCosine = 0

C22_Witness ==
    /\ view = "DotProductLevel"
    /\ event = "change"
    /\ vecB = Zero3
    /\ vecA # Zero3

\* the midpoint sum of integrand i over the first k cells of a grid of
\* per * per cells of width 2r / n that starts at (-r, -r), taken over the
\* cells whose midpoint value is greater than 0
RECURSIVE midpointSum(_, _, _, _)
midpointSum(i, n, per, k) ==
    IF k = 0 THEN 0
    ELSE LET dx == (2 * range * Unit) \div n
             x  == -range * Unit + ((k - 1) \div per) * dx
             y  == -range * Unit + ((k - 1) % per) * dx
             ht == integrand(i, x + dx \div 2, y + dx \div 2)
         IN  (IF ht > 0 THEN Rnd(Rnd(ht * dx, Unit) * dx, Unit) ELSE 0)
               + midpointSum(i, n, per, k - 1)

\* C23: for every resolution n and every lesson function the volume
\* estimate of a drawn frame is the sum, over exactly the n * n cells of
\* the partition of the square domain, of f(cell midpoint) times the cell
\* area, taken over the cells whose midpoint value is greater than 0.
C23_VolumeIsMidpointSum ==
    (view = "IntegralVisualizer" /\ drawPc = "painted") =>
        totalVolume = midpointSum(funcIndex, resolution, resolution,
                                  resolution * resolution)

\* the estimate the integral view computes for integrand i at resolution n:
\* it depends on nothing else
estimate(i, n) ==
    midpointSum(i, n, cellsPerAxis(n), cellsPerAxis(n) * cellsPerAxis(n))

\* C24: once a frame of the integral view has been drawn, the displayed
\* total volume is the estimate for the current function and resolution,
\* whatever function, resolution or camera earlier frames were drawn with;
\* an orbit or a zoom does not change the displayed volume by itself, and
\* the frame drawn after it shows the same volume again.
C24_VolumeFollowsFunctionAndResolution ==
    [][ /\ (view = "IntegralVisualizer" /\ drawPc' = "painted") =>
              totalVolume' = estimate(funcIndex', resolution')
        /\ (nInputs' # nInputs /\ event' \in { "mouseDown", "mouseMove",
                                                "mouseUp", "wheel" }) =>
              totalVolume' = totalVolume ]_vars

C24_Witness ==
    /\ view = "IntegralVisualizer"
    /\ drawPc = "painted"
    /\ resolution = 2
    /\ funcIndex = 1
    /\ totalVolume = estimate(1, 2)

\* C25: in the eigenvector view the probe is classified aligned exactly when
\* some candidate eigen-line direction of the current preset has a cross
\* product with the probe below 0.1 in absolute value; the classification
\* does not change while neither the probe nor the preset changes, whatever
\* the animation progress t does.
C25_AlignedIsToleranceTest ==
    [][ view = "EigenvectorsLevel" =>
          /\ isAligned' <=>
                \E n \in 1..Len(eigenLines(currentPreset')) :
                    LET line == eigenLines(currentPreset')[n]
                    IN  Abs(probeBase'.x * line.y - probeBase'.y * line.x) < 100
          /\ (probeBase' = probeBase /\ currentPreset' = currentPreset) =>
                (isAligned' <=> isAligned) ]_vars

C25_Witness ==
    /\ view = "EigenvectorsLevel"
    /\ currentPreset = "SCALE_UNIFORM"
    /\ probeBase = [ x |-> 2 * Unit, y |-> 2 * Unit ]
    /\ t > 0
    /\ isAligned

\* the points with integer coordinates around the origin
GridPoints ==
    { [ x |-> i * MScale, y |-> j * MScale ] : i \in -2..2, j \in -2..2 }

\* C26: the matrix product of the composition animator means "apply M2
\* first, then M1": applying multiply(M1, M2) to a vector gives what
\* applying M2 and then M1 gives, for the matrix of every queued step as M1
\* and, as M2, the accumulated matrix of the steps before it and the matrix
\* of every queued step.
C26_ProductAppliesSecondFirst ==
    view = "MatrixMultiplicationLevel" =>
        \A v \in GridPoints :
            /\ \A i, j \in 1..Len(queue) :
                  transform(v, multiply(queue[i].matrix, queue[j].matrix))
                    = transform(transform(v, queue[j].matrix), queue[i].matrix)
            /\ isAnimating =>
                  transform(v, multiply(queue[stepIndex + 1].matrix,
                                        accumulatedMatrix))
                    = transform(transform(v, accumulatedMatrix),
                                queue[stepIndex + 1].matrix)

\* the animator is about to compose a step with an accumulated matrix it
\* does not commute with
C26_Witness ==
    /\ view = "MatrixMultiplicationLevel"
    /\ isAnimating
    /\ stepIndex >= 1
    /\ multiply(queue[stepIndex + 1].matrix, accumulatedMatrix)
         # multiply(accumulatedMatrix, queue[stepIndex + 1].matrix)

\* the world points the projections are compared on
WorldPoints ==
    { [ x |-> Unit, y |-> 0, z |-> 0 ], [ x |-> 0, y |-> Unit, z |-> 0 ],
      [ x |-> 0, y |-> 0, z |-> Unit ], [ x |-> 2 * Unit, y |-> -Unit, z |-> 3 * Unit ] }

\* the views with a 2D / 3D toggle
ToggleViews ==
    { "VectorPlayground", "LineEquationLevel", "VectorVisualizer",
      "DotProductLevel", "CurlLevel" }

\* C27: in every view with a 2D / 3D toggle, while 2D mode is active, the
\* screen position of a point depends only on its x and y, the pan and the
\* zoom scale: neither the camera pitch or yaw nor the point's z enters it.
C27_FlatProjectionIn2D ==
    (view \in ToggleViews /\ ~is3D) =>
        \A p \in WorldPoints :
            /\ project(p).x = pan.x + Rnd(p.x * scale, Unit)
            /\ project(p).y = pan.y - Rnd(p.y * scale, Unit)

\* the camera of the mounted view: the dot-product view has a yaw only
yawOfView ==
    IF view \in { "VectorPlayground", "LineEquationLevel", "VectorVisualizer" }
    THEN cameraAngle.y
    ELSE IF view = "DotProductLevel" THEN cameraY ELSE camera.y

pitchOfView ==
    IF view \in { "VectorPlayground", "LineEquationLevel", "VectorVisualizer" }
    THEN cameraAngle.x
    ELSE IF view = "DotProductLevel" THEN 0 ELSE camera.x

\* the views that project, and the mode in which they project in 3D
Projects3D ==
    \/ view \in { "GradientDescent", "CurlLevel", "CrossProductLevel" }
    \/ /\ view \in { "VectorPlayground", "LineEquationLevel",
                     "VectorVisualizer", "DotProductLevel" }
       /\ is3D

boundPoints == << position, vecA, vecB, pointP, dirV, vector, probeBase >>

\* a handle (not the camera, not the pan) is being dragged
handleDragged ==
    CASE view = "VectorVisualizer" -> isDraggingVector
      [] view = "MatrixMultiplicationLevel" -> FALSE
      [] OTHER -> dragging \notin { NoDrag, "ORBIT", "CAMERA", "PAN" }

\* the pointer-move handler of the mounted view, for a movement of (dx, dy)
handleMouseMove(dx, dy) ==
    \/ GDMouseMove(dx, dy) \/ MMMouseMove(dx, dy) \/ LineMouseMove(dx, dy)
    \/ CurlMouseMove(dx, dy) \/ VVMouseMove(dx, dy) \/ VPMouseMove(dx, dy)
    \/ CrossMouseMove(dx, dy) \/ DotMouseMove(dx, dy) \/ EigMouseMove(dx, dy)

\* C29: in every view, a pointer move with dx = dy = 0 received while a
\* handle is dragged leaves every bound world point exactly as it was.
C29_NoDriftAtRest ==
    [][ (handleDragged /\ handleMouseMove(0, 0)) => UNCHANGED boundPoints ]_vars

\* ------------------------------------------------- loops and teardown
\* while the queue is empty and nothing animates, the effect "Update Visual
\* Matrix" gives accumulatedMatrix, one of its own dependencies, a new object
\* on every run: the view renders again and again, each time with a new
\* currentMatrix, hence a new draw
MMIdleRender ==
    /\ view = "MatrixMultiplicationLevel"
    /\ ~isAnimating /\ queue = << >>
    /\ drawLoops < MaxLoops
    /\ drawLoops' = drawLoops + 1
    /\ event' = "render" /\ pre' = Snapshot
    /\ UNCHANGED << view, nInputs, hit, overlap, camVars, cameraAngle, is3D,
                    dragging, gdVars, mmVars, lineVars, vvVars, otherVars >>

\* navigation to another view: React runs the cleanups of the view's
\* effects; the draw-loop effect of LoopViews returns none
Unmount ==
    /\ view # "none"
    /\ view' = "none"
    /\ event' = "unmount" /\ pre' = Snapshot
    /\ UNCHANGED drawLoops
    /\ UNCHANGED << nInputs, hit, overlap, camVars, cameraAngle, is3D,
                    dragging, gdVars, mmVars, lineVars, vvVars, otherVars >>

\* a chain that nothing cancelled calls draw(), which returns at once without
\* a canvas, and requests the next frame
FrameAfterUnmount ==
    /\ view = "none"
    /\ drawLoops > 0
    /\ event' = "frame" /\ pre' = Snapshot
    /\ UNCHANGED << view, nInputs, hit, overlap, camVars, cameraAngle, is3D,
                    dragging, gdVars, mmVars, lineVars, vvVars, otherVars,
                    drawLoops >>

NextLoops == NextViews \/ MMIdleRender \/ Unmount \/ FrameAfterUnmount

SpecLoops == InitViews /\ [][NextLoops]_vars

\* the animation loops and intervals of the mounted view: their effects
\* return a cleanup (cancelAnimationFrame, clearInterval), which React runs
\* before the effect runs again and at teardown
animationLoops ==
    CASE view = "GradientDescent" -> IF isRunning THEN 1 ELSE 0
      [] view = "MatrixMultiplicationLevel" -> IF isAnimating THEN 1 ELSE 0
      [] view = "EigenvectorsLevel" -> IF isPlaying THEN 1 ELSE 0
      [] view = "CurlLevel" -> 1
      [] OTHER -> 0

\* C30: a lesson view has at most one draw loop and at most one animation
\* loop scheduled at any time, and after its teardown none of its
\* animation-frame or interval callbacks is left to fire.
C30_OneLoopAndNoneAfterTeardown ==
    /\ drawLoops <= 1
    /\ animationLoops <= 1
    /\ view = "none" => drawLoops + animationLoops = 0

\* -------------------------------------------------- the cross product
SpecCross == InitCross /\ [][NextCross]_vars

\* a cross product whose x component adds its two products
cross_SumInX(a, b) ==
    LET h(n) == Rnd(n, 10)
    IN  [ x |-> h(a.y) * h(b.z) + h(a.z) * h(b.y),
          y |-> h(a.z) * h(b.x) - h(a.x) * h(b.z),
          z |-> h(a.x) * h(b.y) - h(a.y) * h(b.x) ]

\* Cx = AyBz - AzBy, Cy = AzBx - AxBz, Cz = AxBy - AyBx, in squares of
\* hundredths
cross(a, b) ==
    LET h(n) == Rnd(n, 10)
    IN  [ x |-> h(a.y) * h(b.z) - h(a.z) * h(b.y),
          y |-> h(a.z) * h(b.x) - h(a.x) * h(b.z),
          z |-> h(a.x) * h(b.y) - h(a.y) * h(b.x) ]

vecC == cross(vecA, vecB)

negated(v) == [ x |-> -v.x, y |-> -v.y, z |-> -v.z ]

\* C31: the cross product of the cross-product view is anti-commutative and
\* vanishes on equal operands, for the vectors A and B of every reachable
\* state; the cross product of (1,0,0) and (0,1,0) is (0,0,1).
C31_CrossAntiCommutes ==
    /\ vecC = negated(cross(vecB, vecA))
    /\ cross(vecA, vecA) = Zero3
    /\ cross(vecB, vecB) = Zero3
    /\ cross([ x |-> Unit, y |-> 0, z |-> 0 ], [ x |-> 0, y |-> Unit, z |-> 0 ])
         = [ x |-> 0, y |-> 0, z |-> One ]

\* both vectors have been moved and their product has no zero component
C31_Witness ==
    /\ view = "CrossProductLevel"
    /\ vecA # [ x |-> 2 * Unit, y |-> 0, z |-> Unit ]
    /\ vecB # [ x |-> 0, y |-> 2 * Unit, z |-> Unit ]
    /\ vecC.x # 0 /\ vecC.y # 0 /\ vecC.z # 0

\* ------------------------------------------- events in a floating panel
\* a DraggableWindow that lets every event bubble
stopsPropagation_Never(element, type) == FALSE

\* the root div of DraggableWindow:
\*   onMouseDown={(e) => e.stopPropagation()}
\*   onWheel={(e) => e.stopPropagation()}
stopsPropagation(element, type) ==
    element = "DraggableWindow" /\ type \in { "mousedown", "wheel" }

\* the elements an event reaches while it bubbles, target first
RECURSIVE reached(_, _)
reached(elements, type) ==
    IF elements = << >> THEN { }
    ELSE { Head(elements) } \cup
         IF stopsPropagation(Head(elements), type) THEN { }
         ELSE reached(Tail(elements), type)

\* the ancestors of an element inside a panel: the panel is a child of the
\* view's container, the canvas is its sibling
PanelPath == << "DraggableWindow", "container" >>

\* the element that carries the handlers of the canvas interaction
handlerElement ==
    IF view \in { "DotProductLevel", "VectorPlayground", "VectorVisualizer" }
    THEN "canvas" ELSE "container"

\* handleMouseDown of the mounted view, the pointer being anywhere
canvasMouseDown ==
    \/ \E dist \in HitDists :
          \/ GDMouseDown(dist) \/ CurlMouseDown(dist) \/ VVMouseDown(dist)
          \/ EigMouseDown(dist)
    \/ \E d1 \in HitDists, d2 \in HitDists :
          \/ LineMouseDown(d1, d2) \/ VPMouseDown(d1, d2)
          \/ CrossMouseDown(d1, d2) \/ DotMouseDown(d1, d2)
    \/ MMMouseDown

\* handleWheel of the mounted view
canvasWheel ==
    \/ \E up \in BOOLEAN :
          \/ GDWheel(up) \/ MMWheel(up) \/ LineWheel(up) \/ CurlWheel(up)
          \/ VPWheel(up) \/ CrossWheel(up) \/ DotWheel(up) \/ EigWheel(up)
    \/ \E up \in BOOLEAN, c \in CursorOffsets : VVWheel(up, c)

\* an event no handler of the view receives; held tells whether the primary
\* button is down afterwards (e.buttons, which VectorPlayground reads)
Unhandled(e, held) ==
    /\ Input
    /\ event' = e /\ pre' = Snapshot
    /\ buttons' = IF view = "VectorPlayground" THEN held ELSE buttons
    /\ UNCHANGED << view, hit, overlap, camVars, cameraAngle, is3D, dragging,
                    gdVars, mmVars, lineVars, vvVars, vecA, vecB, cameraY,
                    eigVars, mtVars, drawVars, ivVars, matrix, drawLoops >>

\* a press of the primary button inside a panel
PanelMouseDown ==
    IF handlerElement \in reached(PanelPath, "mousedown")
    THEN canvasMouseDown
    ELSE Unhandled("panelMouseDown", 1)

\* a turn of the wheel inside a panel, outside its number fields
PanelWheel ==
    IF handlerElement \in reached(PanelPath, "wheel")
    THEN canvasWheel
    ELSE Unhandled("panelWheel", buttons)

NextPanels == NextViews \/ PanelMouseDown \/ PanelWheel

SpecPanels == InitViews /\ [][NextPanels]_vars

\* C32: a pointer-down or a wheel event inside a floating panel changes
\* neither the drag target of the view that holds the panel nor its zoom
\* scale.
C32_PanelEventsStayInPanel ==
    [][ (PanelMouseDown \/ PanelWheel)
          => UNCHANGED << dragging, isDraggingVector, isOrbiting, scale >> ]_vars

\* a wheel turn in a panel that follows a press in a panel, in a view whose
\* canvas has been zoomed
C32_Witness ==
    /\ event = "panelWheel"
    /\ pre.event = "panelMouseDown"
    /\ view = "GradientDescent"
    /\ scale # 40

\* C33: in the gradient-descent view the iteration count equals the number
\* of points of the trail, in every reachable state.
C33_IterationCountsTrail ==
    view = "GradientDescent" => iteration = Len(path)

\* the stepper has stepped twice on another function after the ball was
\* grabbed
C33_Witness ==
    /\ view = "GradientDescent"
    /\ funcIndex # 0
    /\ hit = "BALL"
    /\ event = "tick"
    /\ iteration >= 2

\* C34: in the gradient-descent view the ball stays inside the drawn domain
\* [-4, 4] x [-4, 4] in every reachable state.
C34_BallInsideDomain ==
    view = "GradientDescent" =>
        /\ Abs(position.x) <= 4 * Unit
        /\ Abs(position.y) <= 4 * Unit

\* ------------------------------- the animation of MatrixTransformLevel
\* the presets the model selects
PresetTypes == { "IDENTITY", "SHEAR", "COLLAPSE" }

preset2D(type) ==
    CASE type = "IDENTITY" -> Identity2D
      [] type = "SHEAR"    -> [ a |-> Unit, b |-> Unit, c |-> 0, d |-> Unit ]
      [] type = "COLLAPSE" -> [ a |-> Unit, b |-> Unit, c |-> Unit, d |-> Unit ]

preset3D(type) ==
    CASE type = "IDENTITY" -> Identity3D
      [] type = "SHEAR"    -> [ Identity3D EXCEPT !.b = 500 ]
      [] type = "COLLAPSE" -> [ Identity3D EXCEPT !.i = 0 ]

\* the entries the model edits: the fields of the mode that is shown
EditedKeys == IF is3D THEN { "e", "i" } ELSE { "b", "d" }

\* a handler that sets animating and the target of the mode shown: the
\* effect then runs again and calls animate() at once
retarget(t2, t3) ==
    /\ targetMatrix2D' = t2
    /\ targetMatrix3D' = t3
    /\ animate(is3D, t2, t3)

MTSetPreset(type) ==
    /\ view = "MatrixTransformLevel"
    /\ PointerInput
    /\ IF is3D THEN retarget(targetMatrix2D, preset3D(type))
               ELSE retarget(preset2D(type), targetMatrix3D)
    /\ Handled("setPreset")
    /\ UNCHANGED << view, camVars, is3D, dragging, drawVars >>
    /\ UNCHANGED notMT

\* update2D, update3D: parseFloat(val)||0
MTUpdate(key, val) ==
    /\ view = "MatrixTransformLevel"
    /\ PointerInput
    /\ key \in EditedKeys
    /\ LET num == orZero(parseFloat(val))
       IN  IF is3D
           THEN retarget(targetMatrix2D, [ targetMatrix3D EXCEPT ![key] = num ])
           ELSE retarget([ targetMatrix2D EXCEPT ![key] = num ], targetMatrix3D)
    /\ Handled("change")
    /\ UNCHANGED << view, camVars, is3D, dragging, drawVars >>
    /\ UNCHANGED notMT

\* handleScroll2D, handleScroll3D: a tenth up or down, toFixed(1)
MTScroll(key, up) ==
    /\ view = "MatrixTransformLevel"
    /\ PointerInput
    /\ key \in EditedKeys
    /\ LET delta == IF up THEN 100 ELSE -100
       IN  IF is3D
           THEN retarget(targetMatrix2D,
                         [ targetMatrix3D EXCEPT ![key] = toFixed1(@ + delta) ])
           ELSE retarget([ targetMatrix2D EXCEPT ![key] = toFixed1(@ + delta) ],
                         targetMatrix3D)
    /\ Handled("inputScroll")
    /\ UNCHANGED << view, camVars, is3D, dragging, drawVars >>
    /\ UNCHANGED notMT

\* an animation frame: animate() is requested again only while animating
MTFrame ==
    /\ view = "MatrixTransformLevel"
    /\ animating
    /\ animate(is3D, targetMatrix2D, targetMatrix3D)
    /\ UNCHANGED << targetMatrix2D, targetMatrix3D >>
    /\ Handled("frame")
    /\ UNCHANGED << view, nInputs, camVars, is3D, dragging, drawVars >>
    /\ UNCHANGED notMT

\* the view after construction: 2D mode, both matrices the identity
InitAnim ==
    /\ view = "MatrixTransformLevel"
    /\ NoHistory
    /\ is3D = FALSE
    /\ targetMatrix2D = Identity2D /\ currentMatrix2D = Identity2D
    /\ targetMatrix3D = Identity3D /\ currentMatrix3D = Identity3D
    /\ animating = FALSE
    /\ scale = 30
    /\ pan = Origin
    /\ camera = [ x |-> -40, y |-> 60 ]
    /\ dragging = NoDrag
    /\ cameraAngle = Origin /\ position = Origin
    /\ NoGradientDescent /\ NoMatrixMultiplication /\ NoLineEquation
    /\ NoVectorVisualizer /\ NoVectors /\ NoEigenvectors
    /\ NoRenderQueue /\ NoMatrixTransform /\ NoIntegral

NextAnim ==
    \/ MTFrame
    \/ \E type \in PresetTypes : MTSetPreset(type)
    \/ \E key \in { "b", "d", "e", "i" }, val \in Values : MTUpdate(key, val)
    \/ \E key \in { "b", "d", "e", "i" }, up \in BOOLEAN : MTScroll(key, up)
    \/ MTSet2D
    \/ MTSet3D

SpecAnim == InitAnim /\ [][NextAnim]_vars

\* C35: in the matrix-transform view, whenever animating is false the
\* current matrix equals the target matrix, the 2D one and the 3D one.
C35_SettledOnTarget ==
    (view = "MatrixTransformLevel" /\ ~animating) =>
        /\ currentMatrix2D = targetMatrix2D
        /\ currentMatrix3D = targetMatrix3D

\* C36: in the matrix-composition view, while isAnimating holds no step
\* changes the queue, stepIndex is the index of a step of the queue,
\* progress lies in [0, 1] and so does the eased parameter
\* t * t * (3 - 2 * t).
C36_AnimationKeepsQueue ==
    [][ /\ isAnimating => queue' = queue
        /\ isAnimating' =>
              /\ stepIndex' >= 0 /\ stepIndex' < Len(queue')
              /\ progress' >= 0 /\ progress' <= ProgressEnd
              /\ smoothstep(progress') >= 0
              /\ smoothstep(progress') <= SmoothDen ]_vars

\* the second step of a queue of three is half animated
C36_Witness ==
    /\ view = "MatrixMultiplicationLevel"
    /\ isAnimating
    /\ Len(queue) = 3
    /\ stepIndex = 1
    /\ 2 * progress = ProgressEnd

\* C37: in the matrix-composition view, whenever no animation is running the
\* matrix displayed as the resultant is the identity or the product
\* Mk * ... * M1 of the steps now in the queue, never the product of a queue
\* that has been edited since.
C37_ResultantOfCurrentQueue ==
    (view = "MatrixMultiplicationLevel" /\ ~isAnimating)
        => currentMatrix \in { IdentityM, QueueMatrix(queue) }

\* PRESETS[..].matrix
presetMatrix(p) ==
    CASE p = "SCALE_X"       -> [ a |-> 2, b |-> 0, c |-> 0, d |-> 1 ]
      [] p = "SCALE_UNIFORM" -> [ a |-> 2, b |-> 0, c |-> 0, d |-> 2 ]
      [] p = "SHEAR"         -> [ a |-> 1, b |-> 1, c |-> 0, d |-> 1 ]
      [] p = "DIAGONAL"      -> [ a |-> 2, b |-> 1, c |-> 1, d |-> 2 ]

\* a matrix whose lower-left coefficient is at its target from the start
interpolated_LowerLeftAtTarget(m, amt) ==
    [ a |-> 100 + (m.a - 1) * amt, b |-> m.b * amt,
      c |-> 100 * m.c,             d |-> 100 + (m.d - 1) * amt ]

\* currentMatrix of the eigenvector view, in hundredths: each coefficient is
\* lerp(identity, target, t) = start + (end - start) * t, with t = amt / 100
interpolated(m, amt) ==
    [ a |-> 100 + (m.a - 1) * amt, b |-> m.b * amt,
      c |-> m.c * amt,             d |-> 100 + (m.d - 1) * amt ]

\* transform(v, m) of the eigenvector view
image(v, m) ==
    [ x |-> m.a * v.x + m.b * v.y, y |-> m.c * v.x + m.d * v.y ]

\* the position draw gives to the guide of eigen line dir at the current t
guide(dir) == image(dir, interpolated(presetMatrix(currentPreset), t))

\* C38: for every preset and every animation progress t in [0, 1], each
\* candidate eigen-line direction of the preset stays on its own line under
\* the interpolated matrix (1 - t) * I + t * M: the cross product of the
\* direction with its image is 0.
C38_EigenLinesStayOnTheirLine ==
    view = "EigenvectorsLevel" =>
        /\ t \in 0..100
        /\ \A n \in 1..Len(eigenLines(currentPreset)) :
              LET dir == eigenLines(currentPreset)[n]
                  pos == guide(dir)
              IN  dir.x * pos.y - dir.y * pos.x = 0

\* the animation is halfway through the diagonal stretch, whose lines are
\* off the axes and whose guides have moved
C38_Witness ==
    /\ view = "EigenvectorsLevel"
    /\ event = "frame" /\ isPlaying
    /\ currentPreset = "DIAGONAL" /\ t = 50
    /\ guide(eigenLines("DIAGONAL")[1]) = [ x |-> 200, y |-> 200 ]

\* VectorPlayground: vecR, the sum of the two vectors
vecR == [ x |-> vecA.x + vecB.x, y |-> vecA.y + vecB.y, z |-> vecA.z + vecB.z ]

\* the vector the 2D picture shows: project maps x and y and sets z to 0
flat(v) == [ v EXCEPT !.z = 0 ]

\* C39: in 2D mode the readouts of the vector views (the magnitudes, the
\* magnitude of the sum, the dot product, the angle) are computed from the
\* x and y components only, whatever z a vector still carries from 3D mode.
C39_FlatReadoutsIn2D ==
    ~is3D =>
        /\ view = "VectorPlayground" =>
              /\ mag(vecA) = mag(flat(vecA))
              /\ mag(vecB) = mag(flat(vecB))
              /\ mag(vecR) = mag(flat(vecR))
        /\ view = "DotProductLevel" =>
              /\ dot(vecA, vecB) = dot(flat(vecA), flat(vecB))
              /\ mag(vecA) = mag(flat(vecA))
              /\ mag(vecB) = mag(flat(vecB))
              /\ clampedCosine =
                    LET c == divide(dot(flat(vecA), flat(vecB)),
                                    orElse(mag(flat(vecA)) * mag(flat(vecB)),
                                           One))
                    IN  IF c = NaN THEN NaN ELSE Min(Unit, Max(-Unit, c))
        /\ view = "VectorVisualizer" =>
              magnitude = 10 * mag(flat(vector))

\* no button has been pressed since the view was mounted or the last release
noGesture == event \in { "mount", "mouseUp" }

\* the primary button went down on a panel, with no gesture before it
pressedOnPanel ==
    event = "panelMouseDown" /\ pre.event \in { "mount", "mouseUp" }

\* C40: a pointer move over the canvas changes the pan offset, the camera
\* angles or a vector only if the gesture in progress began with a
\* pointer-down on the canvas; a move made with no canvas gesture in
\* progress, or with the button held after a press on a floating panel,
\* changes nothing.
C40_MovesNeedCanvasGesture ==
    [][ \A d \in Deltas :
          ((noGesture \/ pressedOnPanel) /\ handleMouseMove(d[1], d[2]))
              => UNCHANGED << pan, camera, cameraAngle, cameraY, boundPoints >>
      ]_vars

====
